---- MODULE Spec2Model ----
(***************************************************************************)
(* Model of the EdgeOne Pages TTS proxy: the shared token cache of         *)
(* lib/auth.js (getEndpoint, clearTokenCache) and the batched synthesis    *)
(* pipeline of lib/tts.js (getVoice, streamVoice, pipeChunksToStream,      *)
(* getAudioChunk).                                                         *)
(*                                                                         *)
(* JavaScript runs one event-loop turn at a time.  Every action below is   *)
(* one turn: an external event (a request arriving, a network response, a  *)
(* call of clearTokenCache, the clock advancing) together with all the     *)
(* promise continuations that event makes runnable, in the order the       *)
(* microtask queue runs them.  The suspension points between turns are     *)
(* exactly the awaits on I/O: `await sign(...)`, `await fetch(...)` in the *)
(* refresh, `await fetch(url, ...)` in getAudioChunk, and the await of the *)
(* blobs' arrayBuffer() in pipeChunksToStream.                             *)
(***************************************************************************)
EXTENDS Integers, Sequences, FiniteSets, TLC

\* ---------------------------------------------------------------- bounds
MaxUnits == 3
MaxConcurrency == 3
MaxRefresh == 3
MaxTicks == 1
\* the batching arithmetic is checked on its own for longer inputs
MaxChunks == 16
MaxRequested == 7
\* the chunker is checked on every text of up to MaxText characters
MaxText == 4
MaxChunkLength == 3
MaxInput == 2
MaxPasses == 4

\* ------------------------------------------------------ program constants
TOKEN_REFRESH_BEFORE_EXPIRY == 5 * 60
\* tts.js:56, tts.js:109: `Math.max(5, Math.ceil(chunks.length / 3))`
MinConcurrencyFloor == 5
BatchDivisor == 3
Null == -1

TickStep == TOKEN_REFRESH_BEFORE_EXPIRY
MaxNow == MaxTicks * TickStep

Min(a, b) == IF a <= b THEN a ELSE b
Max(a, b) == IF a >= b THEN a ELSE b

Units == 1..MaxUnits
\* one caller of getEndpoint outside the request, e.g. another request's
\* getAudioChunk
Directs == {MaxUnits + 1}
Callers == Units \cup Directs
\* one promise id per possible call, so that a call can always be given one
PromiseIds == 1..(MaxRefresh + Cardinality(Callers))

\* ------------------------------------------------------------ value space
\* the JWT in `data.t`: its payload carries `exp`
NullToken == [id |-> Null, exp |-> Null]
\* the JSON record the token endpoint returns: { r: region, t: token }
NullEndpoint == [r |-> "null", t |-> NullToken]
EmptyTokenInfo == [endpoint |-> NullEndpoint, token |-> NullToken, expiredAt |-> Null]

\* expiry claims the backend may put in a token: one that is inside the
\* refresh lead time from the start, one that is valid until the first tick
ExpValues == {TOKEN_REFRESH_BEFORE_EXPIRY, 2 * TOKEN_REFRESH_BEFORE_EXPIRY}

NoError == [src |-> "none", id |-> 0, kind |-> "none"]
\* `端点获取失败: ...` thrown by refresh p
CredError(p, kind) == [src |-> "cred", id |-> p, kind |-> kind]
\* `Edge TTS API 错误: ...` thrown by the synthesis call of unit u
SynthError(u) == [src |-> "synth", id |-> u, kind |-> "http"]
\* a refresh fails after its request was sent: a non-2xx response
\* (auth.js:122-125) or a token that does not parse (auth.js:130-137); both
\* throws reach the same catch (auth.js:147-148), so one kind stands for them
RefreshFailKinds == {"http"}

IdleCall == [st |-> "idle", p |-> 0, res |-> NullEndpoint, err |-> NoError,
             valid |-> FALSE, seen |-> 0, leader |-> FALSE]
UnusedRefresh == [st |-> "unused", val |-> NullEndpoint, err |-> NoError]
NoResponse == [kind |-> "none", payload |-> <<>>, err |-> NoError]
NoRequest == [n |-> 0, concurrency |-> 0, stream |-> FALSE]
\* the batch loop taken alone: its inputs, its index and the batches it made
NoLoop == [n |-> 0, concurrency |-> 0, i |-> 0, batches |-> <<>>,
           st |-> "idle"]
\* the chunker taken alone: its arguments and what it returned
NoChunker == [text |-> <<>>, maxLength |-> 0, out |-> <<>>, st |-> "idle"]
\* a request at the key check of onRequest: what the check reads of it, the
\* API_KEY of the environment, and how the check went.  A header or a URL
\* parameter that is absent (null) is <<>>, as falsy as the empty string.
NoHttpRequest == [method |-> "GET", authorization |-> <<>>, key |-> <<>>,
                  api_key |-> <<>>]
NoGate == [request |-> NoHttpRequest, apiKey |-> <<>>, st |-> "idle"]

VARIABLES
  now,                  \* Date.now() / 1000
  tokenInfo,            \* auth.js:22
  tokenRefreshing,      \* auth.js:25
  tokenRefreshPromise,  \* auth.js:28 (0 is null, else the promise's id)
  refresh,              \* the refresh promises created at auth.js:89
  backendCalls,         \* per refresh: fetches of the token endpoint
  call,                 \* per caller of getEndpoint: where it stands
  synthCalls,           \* per unit: fetches of the synthesis endpoint
  req,                  \* the request being served (textChunks, concurrency)
  rpc,                  \* "none", "running", "buffers", "done", "failed"
  i,                    \* the batch loop's index (tts.js:60, tts.js:113)
  allAudioBlobs,        \* tts.js:102
  completed,            \* units in the order their synthesis completed
  writer,               \* operations performed on the stream writer
  response,             \* what getVoice / streamVoice returned
  firstFail,            \* error of the first call of the request that failed
  loop,                 \* the batch loop of tts.js:53-61 run without I/O
  chunker,              \* a call of smartChunkText (text-processing.js:13)
  gate                  \* a request at onRequest (part_003:53)

progVars == <<now, tokenInfo, tokenRefreshing, tokenRefreshPromise, refresh,
              backendCalls, call, synthCalls, req, rpc, i, allAudioBlobs,
              completed, writer, response, firstFail>>

vars == <<now, tokenInfo, tokenRefreshing, tokenRefreshPromise, refresh,
          backendCalls, call, synthCalls, req, rpc, i, allAudioBlobs,
          completed, writer, response, firstFail, loop, chunker, gate>>

\* the part of the state a turn's continuations read and write
World == [tokenInfo |-> tokenInfo, tokenRefreshing |-> tokenRefreshing,
          tokenRefreshPromise |-> tokenRefreshPromise, refresh |-> refresh,
          backendCalls |-> backendCalls, call |-> call,
          synthCalls |-> synthCalls, rpc |-> rpc, i |-> i,
          allAudioBlobs |-> allAudioBlobs, completed |-> completed,
          writer |-> writer, response |-> response, firstFail |-> firstFail]

Commit(w) ==
  /\ tokenInfo' = w.tokenInfo
  /\ tokenRefreshing' = w.tokenRefreshing
  /\ tokenRefreshPromise' = w.tokenRefreshPromise
  /\ refresh' = w.refresh
  /\ backendCalls' = w.backendCalls
  /\ call' = w.call
  /\ synthCalls' = w.synthCalls
  /\ rpc' = w.rpc
  /\ i' = w.i
  /\ allAudioBlobs' = w.allAudioBlobs
  /\ completed' = w.completed
  /\ writer' = w.writer
  /\ response' = w.response
  /\ firstFail' = w.firstFail
  /\ loop' = loop

\* The cache is Valid in the sense of the specification: a token is present
\* and the time is more than the refresh lead time before its expiry.
Fresh(ti, t) ==
  /\ ti.token.id >= 1
  /\ ti.expiredAt >= 1
  /\ t + TOKEN_REFRESH_BEFORE_EXPIRY < ti.expiredAt

\* ------------------------------------------------------------ lib/auth.js
\* auth.js:132-134: the expiry claim read from the token's payload
JwtExp(t) == t.exp

\* IsValid with the comparison the wrong way round
IsValidInverted(ti, t) ==
  /\ ti.token # NullToken
  /\ ti.expiredAt # Null /\ ti.expiredAt # 0
  /\ t > ti.expiredAt - TOKEN_REFRESH_BEFORE_EXPIRY

\* auth.js:75-76: `tokenInfo.token && tokenInfo.expiredAt &&
\*                 now < tokenInfo.expiredAt - TOKEN_REFRESH_BEFORE_EXPIRY`
IsValid(ti, t) ==
  /\ ti.token # NullToken
  /\ ti.expiredAt # Null /\ ti.expiredAt # 0
  /\ t < ti.expiredAt - TOKEN_REFRESH_BEFORE_EXPIRY

\* getEndpoint without the race guard: a caller never joins
ShouldJoinUnguarded(refreshing, promise) == FALSE

\* auth.js:81: `tokenRefreshing && tokenRefreshPromise`
ShouldJoin(refreshing, promise) == refreshing /\ promise # 0

\* the id of the promise the next `(async () => {...})()` creates
NextPromise(rf) == Cardinality({p \in PromiseIds : rf[p].st # "unused"}) + 1

\* what a caller of getEndpoint() finds at time t: is the cache Valid, and
\* which refresh handle is set
Observed(w, t) ==
  [valid |-> Fresh(w.tokenInfo, t),
   seen |-> IF w.tokenRefreshing THEN w.tokenRefreshPromise ELSE 0]

\* auth.js:77: `return tokenInfo.endpoint`
ServeCached(w, c, t) ==
  [w EXCEPT !.call[c] =
     [st |-> "resolved", p |-> 0, res |-> w.tokenInfo.endpoint,
      err |-> NoError, valid |-> Observed(w, t).valid,
      seen |-> Observed(w, t).seen, leader |-> FALSE]]

\* a joiner that returns the cache as it is instead of the pending promise
JoinRefreshStale(w, c, t) ==
  [w EXCEPT !.call[c] =
     [st |-> "resolved", p |-> 0, res |-> w.tokenInfo.endpoint,
      err |-> NoError, valid |-> Observed(w, t).valid,
      seen |-> Observed(w, t).seen, leader |-> FALSE]]

\* auth.js:82: `return tokenRefreshPromise`
JoinRefresh(w, c, t) ==
  [w EXCEPT !.call[c] =
     [st |-> "cred", p |-> w.tokenRefreshPromise, res |-> NullEndpoint,
      err |-> NoError, valid |-> Observed(w, t).valid,
      seen |-> Observed(w, t).seen, leader |-> FALSE]]

\* auth.js:86-103 and auth.js:155: set the flag, create the refresh promise,
\* which runs up to `await sign(endpointUrl)`, and return it
StartRefresh(w, c, t) ==
  LET p == NextPromise(w.refresh) IN
  [w EXCEPT !.tokenRefreshing = TRUE,
            !.tokenRefreshPromise = p,
            !.refresh[p] = [st |-> "sign", val |-> NullEndpoint,
                            err |-> NoError],
            !.call[c] =
     [st |-> "cred", p |-> p, res |-> NullEndpoint,
      err |-> NoError, valid |-> Observed(w, t).valid,
      seen |-> Observed(w, t).seen, leader |-> TRUE]]

\* auth.js:70-156, the synchronous part of getEndpoint() called by c at
\* time t
GetEndpoint(w, c, t) ==
  IF IsValid(w.tokenInfo, t) THEN ServeCached(w, c, t)
  ELSE IF ShouldJoin(w.tokenRefreshing, w.tokenRefreshPromise)
  THEN JoinRefresh(w, c, t)
  ELSE StartRefresh(w, c, t)

\* an install that forgets the expiry claim
InstallTokenNoExpiry(w, p, data) ==
  LET installed == [endpoint |-> data, token |-> data.t, expiredAt |-> Null]
  IN [w EXCEPT !.tokenInfo = installed,
               !.refresh[p] = [st |-> "fulfilled", val |-> installed.endpoint,
                               err |-> NoError],
               !.tokenRefreshing = FALSE,
               !.tokenRefreshPromise = 0]

\* auth.js:139-146 and the finally of auth.js:149-152: install and return
InstallToken(w, p, data) ==
  LET installed == [endpoint |-> data, token |-> data.t,
                    expiredAt |-> JwtExp(data.t)]
  IN [w EXCEPT !.tokenInfo = installed,
               !.refresh[p] = [st |-> "fulfilled", val |-> installed.endpoint,
                               err |-> NoError],
               !.tokenRefreshing = FALSE,
               !.tokenRefreshPromise = 0]

\* a failure path without the finally: the flag and the handle stay set
RejectRefreshKeepsFlag(w, p, kind) ==
  [w EXCEPT !.refresh[p] = [st |-> "rejected", val |-> NullEndpoint,
                            err |-> CredError(p, kind)]]

\* a failure path that also drops the cached token
RejectRefreshAndClear(w, p, kind) ==
  [w EXCEPT !.tokenInfo = EmptyTokenInfo,
            !.refresh[p] = [st |-> "rejected", val |-> NullEndpoint,
                            err |-> CredError(p, kind)],
            !.tokenRefreshing = FALSE,
            !.tokenRefreshPromise = 0]

\* auth.js:147-152: the catch rethrows, the finally resets the flags
RejectRefresh(w, p, kind) ==
  [w EXCEPT !.refresh[p] = [st |-> "rejected", val |-> NullEndpoint,
                            err |-> CredError(p, kind)],
            !.tokenRefreshing = FALSE,
            !.tokenRefreshPromise = 0]

\* a clear that resets the flags and keeps the token
ClearedCacheKeepsToken(w) ==
  [w EXCEPT !.tokenRefreshing = FALSE,
            !.tokenRefreshPromise = 0]

\* auth.js:231-235
ClearedCache(w) ==
  [w EXCEPT !.tokenInfo = EmptyTokenInfo,
            !.tokenRefreshing = FALSE,
            !.tokenRefreshPromise = 0]

\* ------------------------------------------------------------- lib/tts.js
\* a quotient taken over one less than the divisor
CeilDivLoose(a, b) == (a + b - 1) \div (b - 1)

\* Math.ceil(a / b) for a >= 0, b >= 1
CeilDiv(a, b) == (a + b - 1) \div b

\* the requested concurrency taken verbatim
optimalConcurrencyVerbatim(concurrency, n) == concurrency

\* tts.js:106-110: the optimalConcurrency of getVoice
optimalConcurrency(concurrency, n) ==
  Min(concurrency, Min(n, Max(MinConcurrencyFloor, CeilDiv(n, BatchDivisor))))

\* tts.js:53-57: the optimalConcurrency of pipeChunksToStream
pipeOptimalConcurrency(concurrency, n) ==
  Min(concurrency, Min(n, Max(MinConcurrencyFloor, CeilDiv(n, BatchDivisor))))

\* Array.prototype.slice: negative indexes count from the end, all clamped
RelIndex(k, len) == IF k < 0 THEN Max(len + k, 0) ELSE Min(k, len)

\* a slice that takes the element at the end index too
SliceInclusive(s, a, b) ==
  LET from == RelIndex(a, Len(s))
      to == RelIndex(b + 1, Len(s))
  IN [j \in 1..Max(to - from, 0) |-> s[from + j]]

\* Array.prototype.slice(a, b): the elements from index a up to, not
\* including, index b
Slice(s, a, b) ==
  LET from == RelIndex(a, Len(s))
      to == RelIndex(b, Len(s))
  IN [j \in 1..Max(to - from, 0) |-> s[from + j]]

\* the units of a request are numbered in input order; unit u's audio is u
textChunks(rq) == [j \in 1..rq.n |-> j]

\* a batch that takes everything from i on, without the cap
CurrentBatchUncapped(w, rq) == Slice(textChunks(rq), w.i, rq.n)

\* tts.js:114: the batch of getVoice
VoiceBatch(w, rq) ==
  Slice(textChunks(rq), w.i, w.i + optimalConcurrency(rq.concurrency, rq.n))

\* a streaming batch that takes everything from i on
PipeBatchUncapped(w, rq) == Slice(textChunks(rq), w.i, rq.n)

\* tts.js:61: the batch of pipeChunksToStream
PipeBatch(w, rq) ==
  Slice(textChunks(rq), w.i,
        w.i + pipeOptimalConcurrency(rq.concurrency, rq.n))

\* the batch of the loop the request runs in
CurrentBatch(w, rq) ==
  IF rq.stream THEN PipeBatch(w, rq) ELSE VoiceBatch(w, rq)

InSeq(x, s) == \E j \in 1..Len(s) : s[j] = x

\* results collected as the calls complete
BatchResultsByCompletion(batch, done) ==
  SelectSeq(done, LAMBDA u : InSeq(u, batch))

\* tts.js:120, tts.js:67: Promise.all resolves with the values in the order
\* of the promises it was given, whatever the order they completed in
BatchResults(batch, done) == batch

\* tts.js:75, tts.js:82: what is done to the writer; a write carries the audio
\* of one unit
WriteOp(u) == [op |-> "write", u |-> u, err |-> NoError]
CloseOp == [op |-> "close", u |-> 0, err |-> NoError]

\* an abort that does not pass the error on
AbortOpNoReason(e) == [op |-> "abort", u |-> 0, err |-> NoError]

\* tts.js:79: `writer.abort(error)`
AbortOp(e) == [op |-> "abort", u |-> 0, err |-> e]

\* an end of the loop that leaves the stream open
FinishNoClose(w, rq) ==
  IF rq.stream
  THEN [w EXCEPT !.rpc = "done",
                 !.response = [kind |-> "stream", payload |-> <<>>,
                               err |-> NoError]]
  ELSE [w EXCEPT !.rpc = "done",
                 !.response = [kind |-> "audio", payload |-> w.allAudioBlobs,
                               err |-> NoError]]

\* tts.js:125-128 (buffered) and tts.js:82, tts.js:31-33 (streaming)
Finish(w, rq) ==
  IF rq.stream
  THEN [w EXCEPT !.rpc = "done",
                 !.writer = Append(@, CloseOp),
                 !.response = [kind |-> "stream", payload |-> <<>>,
                               err |-> NoError]]
  ELSE [w EXCEPT !.rpc = "done",
                 !.response = [kind |-> "audio", payload |-> w.allAudioBlobs,
                               err |-> NoError]]

\* a failure path that answers with the audio collected so far
FailRequestPartial(w, rq, e) ==
  IF rq.stream
  THEN [w EXCEPT !.rpc = "failed",
                 !.writer = Append(Append(@, AbortOp(e)), CloseOp),
                 !.response = [kind |-> "error", payload |-> <<>>,
                               err |-> e]]
  ELSE [w EXCEPT !.rpc = "failed",
                 !.response = [kind |-> "audio", payload |-> w.allAudioBlobs,
                               err |-> e]]

\* tts.js:129-131 (buffered) and tts.js:78-83, tts.js:34-36 (streaming)
FailRequest(w, rq, e) ==
  IF rq.stream
  THEN [w EXCEPT !.rpc = "failed",
                 !.writer = Append(Append(@, AbortOp(e)), CloseOp),
                 !.response = [kind |-> "error", payload |-> <<>>,
                               err |-> e]]
  ELSE [w EXCEPT !.rpc = "failed",
                 !.response = [kind |-> "error", payload |-> <<>>,
                               err |-> e]]

\* tts.js:153-162: the synthesis request of unit u is sent
SynthFetch(w, u, endpoint) ==
  [w EXCEPT !.call[u].st = "synth",
            !.call[u].res = endpoint,
            !.synthCalls[u] = @ + 1]

\* a call that sends the synthesis request without waiting for the endpoint
GetAudioChunkEager(w, u, t) ==
  LET w1 == GetEndpoint(w, u, t) IN
  SynthFetch(w1, u, w1.call[u].res)

\* tts.js:148-149: getAudioChunk up to `await getEndpoint()`; with a cached
\* credential the await resumes in the same turn and the request is sent
GetAudioChunk(w, u, t) ==
  LET w1 == GetEndpoint(w, u, t) IN
  IF w1.call[u].st = "resolved"
  THEN SynthFetch(w1, u, w1.call[u].res)
  ELSE w1

RECURSIVE IssueAll(_, _, _)
\* tts.js:62-64, tts.js:115-117: batch.map(chunk => getAudioChunk(chunk, ...))
IssueAll(w, batch, t) ==
  IF batch = <<>> THEN w
  ELSE IssueAll(GetAudioChunk(w, Head(batch), t), Tail(batch), t)

\* a loop that issues the calls of the next batch together with the current one
LoopFromPipelined(w, rq, t) ==
  IF w.i < rq.n
  THEN IssueAll(w, Slice(textChunks(rq), w.i,
                         w.i + 2 * optimalConcurrency(rq.concurrency, rq.n)), t)
  ELSE Finish(w, rq)

\* tts.js:60, tts.js:113: the loop test, then the next batch or the end
LoopFrom(w, rq, t) ==
  IF w.i < rq.n
  THEN IssueAll(w, CurrentBatch(w, rq), t)
  ELSE Finish(w, rq)

\* a loop that, in streaming mode, waits after its writes until they are read
BatchDoneAwaitsReader(w, rq, batch, t) ==
  LET results == BatchResults(batch, w.completed)
      step == IF rq.stream
              THEN pipeOptimalConcurrency(rq.concurrency, rq.n)
              ELSE optimalConcurrency(rq.concurrency, rq.n)
  IN IF rq.stream
     THEN [w EXCEPT !.writer = @ \o [j \in 1..Len(results) |->
                                      WriteOp(results[j])],
                    !.i = @ + step,
                    !.rpc = "drain"]
     ELSE LoopFrom([w EXCEPT !.allAudioBlobs = @ \o results,
                             !.i = @ + step], rq, t)

\* a loop that hands the results of a batch on last one first
BatchDoneReversed(w, rq, batch, t) ==
  LET results == BatchResults(batch, w.completed)
      m == Len(results)
      step == IF rq.stream
              THEN pipeOptimalConcurrency(rq.concurrency, rq.n)
              ELSE optimalConcurrency(rq.concurrency, rq.n)
      w1 == IF rq.stream
            THEN [w EXCEPT !.writer = @ \o [j \in 1..m |->
                                             WriteOp(results[m + 1 - j])],
                           !.i = @ + step]
            ELSE [w EXCEPT !.allAudioBlobs = @ \o [j \in 1..m |->
                                                    results[m + 1 - j]],
                           !.i = @ + step]
  IN LoopFrom(w1, rq, t)

\* tts.js:121 (buffered), tts.js:70-76 (streaming), then `i += optimalConcurrency`
\* of the loop's own optimalConcurrency (tts.js:113, tts.js:60)
BatchDone(w, rq, batch, t) ==
  LET results == BatchResults(batch, w.completed)
      step == IF rq.stream
              THEN pipeOptimalConcurrency(rq.concurrency, rq.n)
              ELSE optimalConcurrency(rq.concurrency, rq.n)
      w1 == IF rq.stream
            THEN [w EXCEPT !.writer = @ \o [j \in 1..Len(results) |->
                                             WriteOp(results[j])],
                           !.i = @ + step]
            ELSE [w EXCEPT !.allAudioBlobs = @ \o results,
                           !.i = @ + step]
  IN LoopFrom(w1, rq, t)

\* a buffered request that answers when its first batch has resolved
AfterBatchRespondsEarly(w, rq, batch, t) ==
  IF rq.stream
  THEN [w EXCEPT !.rpc = "buffers"]
  ELSE Finish([w EXCEPT !.allAudioBlobs =
                          @ \o BatchResults(batch, w.completed)], rq)

\* the batch has resolved: getVoice collects it at once (tts.js:121);
\* pipeChunksToStream first awaits the blobs' arrayBuffer() (tts.js:70-71)
AfterBatch(w, rq, batch, t) ==
  IF rq.stream
  THEN [w EXCEPT !.rpc = "buffers"]
  ELSE BatchDone(w, rq, batch, t)

\* a wait that lets the batch end when every call has settled, failed or not
SettleIgnoringFailure(w, rq, u, t) ==
  LET batch == CurrentBatch(w, rq) IN
  IF w.rpc # "running" \/ ~InSeq(u, batch) THEN w
  ELSE IF \A j \in 1..Len(batch) : w.call[batch[j]].st \in {"ok", "fail"}
  THEN AfterBatch(w, rq, batch, t)
  ELSE w

\* `await Promise.all(audioPromises)` after the promise of unit u settled:
\* the first rejection rejects it, the last fulfilment fulfils it
Settle(w, rq, u, t) ==
  LET batch == CurrentBatch(w, rq) IN
  IF w.rpc # "running" \/ ~InSeq(u, batch) THEN w
  ELSE IF w.call[u].st = "fail" THEN FailRequest(w, rq, w.call[u].err)
  ELSE IF \A j \in 1..Len(batch) : w.call[batch[j]].st = "ok"
  THEN AfterBatch(w, rq, batch, t)
  ELSE w

\* the promise of getAudioChunk(u) rejects with e
UnitFailed(w, u, e) ==
  [w EXCEPT !.call[u].st = "fail",
            !.call[u].err = e,
            !.firstFail = IF @ = NoError THEN e ELSE @]

\* tts.js:169: the promise of getAudioChunk(u) fulfils with the blob
UnitOk(w, u) ==
  [w EXCEPT !.call[u].st = "ok",
            !.completed = Append(@, u)]

\* the caller c of getEndpoint() receives the credential `data`
ResumeOk(w, c, data) ==
  IF c \in Units
  THEN SynthFetch(w, c, data)
  ELSE [w EXCEPT !.call[c].st = "done", !.call[c].res = data]

\* the caller c of getEndpoint() receives the rejection e
ResumeErr(w, rq, c, e, t) ==
  IF c \in Units
  THEN Settle(UnitFailed(w, c, e), rq, c, t)
  ELSE [w EXCEPT !.call[c].st = "done", !.call[c].err = e]

\* the callers attached to promise p that are still waiting for it
Waiters(w, p) == {c \in Callers : w.call[c].st = "cred" /\ w.call[c].p = p}

SetMin(S) == CHOOSE x \in S : \A y \in S : x <= y

\* a settling that runs the reaction of the first waiter only
ResumeFirstOnly(w, rq, p, t) ==
  IF Waiters(w, p) = {} THEN w
  ELSE LET c == SetMin(Waiters(w, p))
       IN IF w.refresh[p].st = "fulfilled"
          THEN ResumeOk(w, c, w.refresh[p].val)
          ELSE ResumeErr(w, rq, c, w.refresh[p].err, t)

RECURSIVE ResumeAll(_, _, _, _)
\* the reactions registered on the settled promise p run in turn
ResumeAll(w, rq, p, t) ==
  IF Waiters(w, p) = {} THEN w
  ELSE LET c == SetMin(Waiters(w, p))
           w1 == IF w.refresh[p].st = "fulfilled"
                 THEN ResumeOk(w, c, w.refresh[p].val)
                 ELSE ResumeErr(w, rq, c, w.refresh[p].err, t)
       IN ResumeAll(w1, rq, p, t)

\* ---------------------------------------------------------------- actions
ProgramInit ==
  /\ now = 0
  /\ tokenInfo = EmptyTokenInfo
  /\ tokenRefreshing = FALSE
  /\ tokenRefreshPromise = 0
  /\ refresh = [p \in PromiseIds |-> UnusedRefresh]
  /\ backendCalls = [p \in PromiseIds |-> 0]
  /\ call = [c \in Callers |-> IdleCall]
  /\ synthCalls = [u \in Units |-> 0]
  /\ req = NoRequest
  /\ rpc = "none"
  /\ i = 0
  /\ allAudioBlobs = <<>>
  /\ completed = <<>>
  /\ writer = <<>>
  /\ response = NoResponse
  /\ firstFail = NoError

Init == ProgramInit /\ loop = NoLoop /\ chunker = NoChunker /\ gate = NoGate

\* the model creates at most MaxRefresh refresh promises
Bounded(w) ==
  Cardinality({p \in PromiseIds : w.refresh[p].st # "unused"}) <= MaxRefresh

\* a request arrives: getVoice (tts.js:101) or streamVoice (tts.js:25) runs
\* up to its first await
StartRequest(n, c, s) ==
  LET rq == [n |-> n, concurrency |-> c, stream |-> s]
      w == LoopFrom([World EXCEPT !.rpc = "running", !.i = 0], rq, now)
  IN /\ rpc = "none"
     /\ Bounded(w)
     /\ req' = rq
     /\ Commit(w)
     /\ UNCHANGED <<now, chunker, gate>>

\* the synthesis backend answers unit u with audio (tts.js:164-169)
SynthOk(u) ==
  LET w == Settle(UnitOk(World, u), req, u, now)
  IN /\ call[u].st = "synth"
     /\ Bounded(w)
     /\ Commit(w)
     /\ UNCHANGED <<now, req, chunker, gate>>

\* the synthesis backend answers unit u with an error (tts.js:164-167)
SynthFail(u) ==
  LET w == Settle(UnitFailed(World, u, SynthError(u)), req, u, now)
  IN /\ call[u].st = "synth"
     /\ Commit(w)
     /\ UNCHANGED <<now, req, chunker, gate>>

\* tts.js:71-77: the buffers of the batch are there; they are written to
\* the stream in order and the loop goes on
BuffersReady ==
  LET w == BatchDone([World EXCEPT !.rpc = "running"], req,
                     CurrentBatch(World, req), now)
  IN /\ rpc = "buffers"
     /\ Bounded(w)
     /\ Commit(w)
     /\ UNCHANGED <<now, req, chunker, gate>>

\* some other holder of the module calls getEndpoint() (auth.js:70)
DirectCall(c) ==
  LET w1 == GetEndpoint(World, c, now)
      w == IF w1.call[c].st = "resolved"
           THEN ResumeOk(w1, c, w1.call[c].res)
           ELSE w1
  IN /\ c \in Directs
     /\ call[c].st = "idle"
     /\ Bounded(w)
     /\ Commit(w)
     /\ UNCHANGED <<now, req, chunker, gate>>

\* auth.js:103-106: the signature of refresh p is ready, the POST is sent.
SignDone(p) ==
  /\ refresh[p].st = "sign"
  /\ refresh' = [refresh EXCEPT ![p].st = "fetch"]
  /\ backendCalls' = [backendCalls EXCEPT ![p] = @ + 1]
  /\ UNCHANGED <<now, tokenInfo, tokenRefreshing, tokenRefreshPromise, call,
                 synthCalls, req, rpc, i, allAudioBlobs, completed, writer,
                 response, firstFail, loop, chunker, gate>>

\* `HMAC 签名失败` (auth.js:223-225) or `crypto.subtle API 不可用`
\* (auth.js:197-199) thrown under `await sign(endpointUrl)`
SignFailKind == "sign"

\* auth.js:103, then auth.js:147-152: the signature of refresh p fails; the
\* refresh is rejected before any request is sent to the token endpoint
SignFail(p) ==
  LET w == ResumeAll(RejectRefresh(World, p, SignFailKind), req, p, now)
  IN /\ refresh[p].st = "sign"
     /\ Commit(w)
     /\ UNCHANGED <<now, req, chunker, gate>>

\* a refresh whose result is dropped when clearTokenCache detached it: the
\* promise fulfils but nothing is installed
RefreshOkUnlessDetached(p, e) ==
  LET data == [r |-> "region", t |-> [id |-> p, exp |-> e]]
      w0 == IF tokenRefreshing /\ tokenRefreshPromise = p
            THEN InstallToken(World, p, data)
            ELSE [World EXCEPT !.refresh[p] =
                    [st |-> "fulfilled", val |-> data, err |-> NoError]]
      w == ResumeAll(w0, req, p, now)
  IN /\ refresh[p].st = "fetch"
     /\ Commit(w)
     /\ UNCHANGED <<now, req, chunker, gate>>

\* auth.js:127-146: the token endpoint answers refresh p with a token
\* whose payload carries the expiry e
RefreshOk(p, e) ==
  LET data == [r |-> "region", t |-> [id |-> p, exp |-> e]]
      w == ResumeAll(InstallToken(World, p, data), req, p, now)
  IN /\ refresh[p].st = "fetch"
     /\ Commit(w)
     /\ UNCHANGED <<now, req, chunker, gate>>

\* auth.js:122-125, auth.js:135-137, auth.js:147-152: refresh p fails
RefreshFail(p, kind) ==
  LET w == ResumeAll(RejectRefresh(World, p, kind), req, p, now)
  IN /\ refresh[p].st = "fetch"
     /\ Commit(w)
     /\ UNCHANGED <<now, req, chunker, gate>>

\* auth.js:231-235
ClearTokenCache ==
  /\ Commit(ClearedCache(World))
  /\ UNCHANGED <<now, req, chunker, gate>>

\* time passes
Tick ==
  /\ now < MaxNow
  /\ now' = now + TickStep
  /\ UNCHANGED <<tokenInfo, tokenRefreshing, tokenRefreshPromise, refresh,
                 backendCalls, call, synthCalls, req, rpc, i, allAudioBlobs,
                 completed, writer, response, firstFail, loop, chunker, gate>>

Next ==
  \/ \E n \in 0..MaxUnits, c \in 1..MaxConcurrency, s \in BOOLEAN :
       StartRequest(n, c, s)
  \/ \E u \in Units : SynthOk(u)
  \/ \E u \in Units : SynthFail(u)
  \/ BuffersReady
  \/ \E c \in Directs : DirectCall(c)
  \/ \E p \in PromiseIds : SignDone(p)
  \/ \E p \in PromiseIds, e \in ExpValues : RefreshOk(p, e)
  \/ \E p \in PromiseIds, k \in RefreshFailKinds : RefreshFail(p, k)
  \/ \E p \in PromiseIds : SignFail(p)
  \/ ClearTokenCache
  \/ Tick

Spec == Init /\ [][Next]_vars

\* the behaviours in which clearTokenCache is never called
NextNoInvalidate ==
  \/ \E n \in 0..MaxUnits, c \in 1..MaxConcurrency, s \in BOOLEAN :
       StartRequest(n, c, s)
  \/ \E u \in Units : SynthOk(u)
  \/ \E u \in Units : SynthFail(u)
  \/ BuffersReady
  \/ \E c \in Directs : DirectCall(c)
  \/ \E p \in PromiseIds : SignDone(p)
  \/ \E p \in PromiseIds, e \in ExpValues : RefreshOk(p, e)
  \/ \E p \in PromiseIds, k \in RefreshFailKinds : RefreshFail(p, k)
  \/ \E p \in PromiseIds : SignFail(p)
  \/ Tick

SpecNoInvalidate == Init /\ [][NextNoInvalidate]_vars

\* the behaviours of one request served alone in which every synthesis call
\* and every credential refresh succeeds; every pending answer arrives
NextAllSucceed ==
  \/ \E n \in 0..MaxUnits, c \in 1..MaxConcurrency, s \in BOOLEAN :
       StartRequest(n, c, s)
  \/ \E u \in Units : SynthOk(u)
  \/ BuffersReady
  \/ \E p \in PromiseIds : SignDone(p)
  \/ \E p \in PromiseIds, e \in ExpValues : RefreshOk(p, e)
  \/ Tick

\* the answers the request is waiting for
Answers ==
  \/ \E u \in Units : SynthOk(u)
  \/ BuffersReady
  \/ \E p \in PromiseIds : SignDone(p)
  \/ \E p \in PromiseIds, e \in ExpValues : RefreshOk(p, e)

\* the guards of the answers: a synthesis request, a conversion of buffers,
\* a signature or a token request is outstanding
AnswerPending ==
  \/ \E u \in Units : call[u].st = "synth"
  \/ rpc = "buffers"
  \/ \E p \in PromiseIds : refresh[p].st \in {"sign", "fetch"}

\* An awaited answer is not withheld for ever.  This is WF_vars(Answers)
\* with ENABLED <<Answers>>_vars written out as AnswerPending, the guards of
\* the answer actions.
AnswersArrive == []<>(~AnswerPending) \/ []<><<Answers>>_vars

SpecAllSucceed == Init /\ [][NextAllSucceed]_vars /\ AnswersArrive

\* the answers of the token endpoint and of the signature a refresh waits for
TokenAnswers ==
  \/ \E p \in PromiseIds : SignDone(p)
  \/ \E p \in PromiseIds : SignFail(p)
  \/ \E p \in PromiseIds, e \in ExpValues : RefreshOk(p, e)
  \/ \E p \in PromiseIds, k \in RefreshFailKinds : RefreshFail(p, k)
  \/ \E p \in PromiseIds : SignFail(p)

\* the guards of these answers: a refresh is at its signature or at its fetch
TokenAnswerPending == \E p \in PromiseIds : refresh[p].st \in {"sign", "fetch"}

\* Every backend token call settles in the end.  This is
\* WF_vars(TokenAnswers) with ENABLED <<TokenAnswers>>_vars written out as
\* TokenAnswerPending.
TokenAnswersArrive == []<>(~TokenAnswerPending) \/ []<><<TokenAnswers>>_vars

\* the callers of getEndpoint, the refreshes and clearTokenCache
NextTokens ==
  \/ \E n \in 0..MaxUnits, c \in 1..MaxConcurrency, s \in BOOLEAN :
       StartRequest(n, c, s)
  \/ \E c \in Directs : DirectCall(c)
  \/ \E p \in PromiseIds : SignDone(p)
  \/ \E p \in PromiseIds, e \in ExpValues : RefreshOk(p, e)
  \/ \E p \in PromiseIds, k \in RefreshFailKinds : RefreshFail(p, k)
  \/ \E p \in PromiseIds : SignFail(p)
  \/ ClearTokenCache

\* every interleaving of callers, refreshes and clearTokenCache in which the
\* token backend answers every call
SpecTokensSettle == Init /\ [][NextTokens]_vars /\ TokenAnswersArrive

\* ------------------------------------------------- the batch loop by itself
\* tts.js:53-61 and tts.js:106-114 for any chunk count and any requested
\* concurrency >= 1, every batch taken to succeed
InitBatching ==
  /\ ProgramInit
  /\ chunker = NoChunker
  /\ gate = NoGate
  /\ \E n \in 0..MaxChunks, c \in 1..MaxRequested :
       loop = [n |-> n, concurrency |-> c, i |-> 0, batches |-> <<>>,
               st |-> "running"]

\* tts.js:60-61, tts.js:113-114: one pass of the loop makes one batch
LoopStep ==
  /\ loop.st = "running"
  /\ loop.i < loop.n
  /\ loop' = [loop EXCEPT
                !.batches = Append(@, VoiceBatch(loop, loop)),
                !.i = @ + optimalConcurrency(loop.concurrency, loop.n)]
  /\ UNCHANGED <<progVars, chunker, gate>>

\* tts.js:60, tts.js:113: the loop test fails, the loop is over
LoopExit ==
  /\ loop.st = "running"
  /\ ~(loop.i < loop.n)
  /\ loop' = [loop EXCEPT !.st = "done"]
  /\ UNCHANGED <<progVars, chunker, gate>>

NextBatching == LoopStep \/ LoopExit

SpecBatching == InitBatching /\ [][NextBatching]_vars

\* tts.js:53-61 and tts.js:106-114 for a requested concurrency as
\* processRequestParams hands it on (tts.js:226, tts.js:267): any integer of
\* the request body, zero and the negative ones too
InitUnvalidated ==
  /\ ProgramInit
  /\ chunker = NoChunker
  /\ gate = NoGate
  /\ \E n \in 1..MaxChunks, c \in (0 - MaxRequested)..MaxRequested :
       loop = [n |-> n, concurrency |-> c, i |-> 0, batches |-> <<>>,
               st |-> "running"]

\* one pass of the loop, looked at for the first MaxPasses passes
LoopPass == Len(loop.batches) < MaxPasses /\ LoopStep

NextUnvalidated == LoopPass \/ LoopExit

SpecUnvalidated == InitUnvalidated /\ [][NextUnvalidated]_vars

\* ------------------------------------------- utils/text-processing.js
\* A text is a sequence of characters.  The characters tried: two letters, a
\* blank, a full stop (a delimiter that is no whitespace) and a line feed (a
\* delimiter that is whitespace too).
Chars == {"a", "b", " ", ".", "\n"}

\* text-processing.js:18: the characters of the class [.?!,;:\n\r] (the
\* full-width forms of the same class are treated alike by the code)
Delimiters == {".", "?", "!", ",", ";", ":", "\n", "\r"}
\* what String.prototype.trim removes, as far as Chars goes
Whitespace == {" ", "\n", "\r", "\t"}

IsDelimiter(ch) == ch \in Delimiters
IsWhitespace(ch) == ch \in Whitespace

RECURSIVE TrimStart(_)
TrimStart(str) ==
  IF str # <<>> /\ IsWhitespace(Head(str)) THEN TrimStart(Tail(str)) ELSE str

RECURSIVE TrimEnd(_)
TrimEnd(str) ==
  IF str # <<>> /\ IsWhitespace(str[Len(str)])
  THEN TrimEnd(SubSeq(str, 1, Len(str) - 1))
  ELSE str

\* a trim of the front only
TrimLeadingOnly(str) == TrimStart(str)

\* String.prototype.trim
Trim(str) == TrimEnd(TrimStart(str))

\* the index of the first delimiter of str, 0 if it has none
FirstDelimiter(str) ==
  IF \E k \in 1..Len(str) : IsDelimiter(str[k])
  THEN CHOOSE k \in 1..Len(str) :
         /\ IsDelimiter(str[k])
         /\ \A j \in 1..(k - 1) : ~IsDelimiter(str[j])
  ELSE 0

\* the last index of the run of delimiters that starts at k
RunEnd(str, k) ==
  CHOOSE m \in k..Len(str) :
    /\ \A j \in k..m : IsDelimiter(str[j])
    /\ (m = Len(str) \/ ~IsDelimiter(str[m + 1]))

RECURSIVE SplitSentences(_)
\* text-processing.js:18: text.split(/([.?!,;:\n...]+)/g): the pieces between
\* the runs of delimiters and, because of the capture group, the runs
\* themselves, in order; a piece between two runs or at an end may be empty
SplitSentences(str) ==
  LET k == FirstDelimiter(str) IN
  IF k = 0 THEN <<str>>
  ELSE LET m == RunEnd(str, k) IN
       <<SubSeq(str, 1, k - 1), SubSeq(str, k, m)>>
         \o SplitSentences(SubSeq(str, m + 1, Len(str)))

RECURSIVE Join(_)
\* parts.join('')
Join(parts) == IF parts = <<>> THEN <<>> ELSE Head(parts) \o Join(Tail(parts))

\* the state of the loop of text-processing.js:20-36; `flushed` holds the
\* `parts` arrays that were joined into chunks, in order
EmptyChunking == [flushed |-> <<>>, parts |-> <<>>, currentLength |-> 0]

\* a loop body that takes a piece only if it leaves room
ChunkStepStrict(cs, part, maxChunkLength) ==
  IF cs.currentLength + Len(part) < maxChunkLength
  THEN [cs EXCEPT !.parts = Append(@, part),
                  !.currentLength = @ + Len(part)]
  ELSE [flushed |-> IF Len(cs.parts) > 0 THEN Append(cs.flushed, cs.parts)
                    ELSE cs.flushed,
        parts |-> <<part>>,
        currentLength |-> Len(part)]

\* text-processing.js:24-35: one pass of the loop over the pieces
ChunkStep(cs, part, maxChunkLength) ==
  IF cs.currentLength + Len(part) <= maxChunkLength
  THEN [cs EXCEPT !.parts = Append(@, part),
                  !.currentLength = @ + Len(part)]
  ELSE [flushed |-> IF Len(cs.parts) > 0 THEN Append(cs.flushed, cs.parts)
                    ELSE cs.flushed,
        parts |-> <<part>>,
        currentLength |-> Len(part)]

RECURSIVE ChunkLoop(_, _, _)
\* text-processing.js:23-36
ChunkLoop(cs, sentences, maxChunkLength) ==
  IF sentences = <<>> THEN cs
  ELSE ChunkLoop(ChunkStep(cs, Head(sentences), maxChunkLength),
                 Tail(sentences), maxChunkLength)

\* text-processing.js:16-41: the arrays of pieces that become chunks, the
\* last one flushed after the loop
Buffers(text, maxChunkLength) ==
  LET cs == ChunkLoop(EmptyChunking, SplitSentences(text), maxChunkLength)
  IN IF Len(cs.parts) > 0 THEN Append(cs.flushed, cs.parts) ELSE cs.flushed

\* chunks made of the first piece of each array only
BoundaryChunksFirstPiece(text, maxChunkLength) ==
  LET bs == Buffers(text, maxChunkLength)
  IN [j \in 1..Len(bs) |-> Trim(Head(bs[j]))]

\* text-processing.js:31, text-processing.js:40: chunks.push(parts.join('').trim())
BoundaryChunks(text, maxChunkLength) ==
  LET bs == Buffers(text, maxChunkLength)
  IN [j \in 1..Len(bs) |-> Trim(Join(bs[j]))]

\* text-processing.js:45-47: text.substring(i, i + maxChunkLength) for
\* i = 0, maxChunkLength, ...
FixedWidth(text, maxChunkLength) ==
  [j \in 1..CeilDiv(Len(text), maxChunkLength) |->
     SubSeq(text, (j - 1) * maxChunkLength + 1,
            Min(j * maxChunkLength, Len(text)))]

\* text-processing.js:44: `chunks.length === 0 && text.length > 0`
UsesFallback(text, maxChunkLength) ==
  Len(BoundaryChunks(text, maxChunkLength)) = 0 /\ Len(text) > 0

\* text-processing.js:16-48: the chunks before the final filter
RawChunks(text, maxChunkLength) ==
  IF UsesFallback(text, maxChunkLength)
  THEN FixedWidth(text, maxChunkLength)
  ELSE BoundaryChunks(text, maxChunkLength)

\* a chunker without the guard for the empty text and without the filter
smartChunkTextUnguarded(text, maxChunkLength) == RawChunks(text, maxChunkLength)

\* text-processing.js:13-51
smartChunkText(text, maxChunkLength) ==
  IF text = <<>> THEN <<>>
  ELSE SelectSeq(RawChunks(text, maxChunkLength), LAMBDA c : Len(c) > 0)

\* the texts of up to n characters
Texts(n) == UNION {[1..k -> Chars] : k \in 0..n}

InitChunker ==
  /\ ProgramInit
  /\ loop = NoLoop
  /\ gate = NoGate
  /\ \E text \in Texts(MaxText), m \in 0..MaxChunkLength :
       chunker = [text |-> text, maxLength |-> m, out |-> <<>>,
                  st |-> "called"]

\* text-processing.js:13-51: the call returns
ChunkText ==
  /\ chunker.st = "called"
  /\ chunker' = [chunker EXCEPT
                   !.out = smartChunkText(chunker.text, chunker.maxLength),
                   !.st = "returned"]
  /\ UNCHANGED <<progVars, loop, gate>>

NextChunker == ChunkText

SpecChunker == InitChunker /\ [][NextChunker]_vars

\* ------------------------------------------------ the speech request handler
RECURSIVE CollapseWhitespace(_)
\* text-processing.js:110-113: replace(/\s+/g, ' ')
CollapseWhitespace(str) ==
  IF str = <<>> THEN <<>>
  ELSE IF IsWhitespace(Head(str))
       THEN <<" ">> \o CollapseWhitespace(TrimStart(str))
       ELSE <<Head(str)>> \o CollapseWhitespace(Tail(str))

\* text-processing.js:59-118 with the default options of tts.js:235-243.  A
\* text over Chars has no URL, markdown mark, emoji or digit, so the stages
\* of l.63-107 leave it as it is; what acts is the collapse of l.112 and the
\* trim of l.117.
cleanText(text) == Trim(CollapseWhitespace(text))

\* what a request body says of the voice: `voice` absent (undefined), falsy
\* ("" or null) or the name of a voice, and `model` "tts-1" or a model that
\* names a voice of OPENAI_VOICE_MAP (tts.js:246)
VoiceChoices ==
  {[voice |-> "named", model |-> "tts-1"],
   [voice |-> "absent", model |-> "tts-1"],
   [voice |-> "falsy", model |-> "tts-1"],
   [voice |-> "falsy", model |-> "tts-1-alloy"]}
\* part_001:281-288: the models `tts-1-<voice>` whose voice is in the map
MappedModels == {"tts-1-alloy"}

\* the request body as parseRequestParams gets it: `json` is whether
\* request.json() parses it, `input` may be absent (undefined)
Body(t, v) == [json |-> TRUE, present |-> TRUE, input |-> t,
               voice |-> v.voice, model |-> v.model]
BadJson == [json |-> FALSE, present |-> FALSE, input |-> <<>>,
            voice |-> "absent", model |-> "tts-1"]
NoInput == [json |-> TRUE, present |-> FALSE, input |-> <<>>,
            voice |-> "absent", model |-> "tts-1"]
\* the bodies of the requests: every text of up to n characters with a
\* named voice, and every voice choice with the texts of VoiceTexts; what
\* the voice is has no part in what becomes of the text
NamedVoice == [voice |-> "named", model |-> "tts-1"]
VoiceTexts == {<<>>, <<"a">>}
Bodies(n) ==
  {BadJson, NoInput} \cup {Body(t, NamedVoice) : t \in Texts(n)}
    \cup {Body(t, v) : t \in VoiceTexts, v \in VoiceChoices}

\* tts.js:181-208: a GET request is read from its URL parameters, where an
\* absent voice is null (tts.js:191); a POST request from its JSON body
parseRequestParams(method, body) ==
  IF method = "GET"
  THEN [body EXCEPT !.json = TRUE,
                    !.voice = IF @ = "absent" THEN "falsy" ELSE @]
  ELSE body

\* `JSON 解析错误` thrown by parseRequestParams (tts.js:200-204)
JsonError == [src |-> "json", id |-> 0, kind |-> "parse"]
\* `无效的语音模型` thrown by processRequestParams (tts.js:249-251)
VoiceError == [src |-> "voice", id |-> 0, kind |-> "invalid"]

\* `'input' 是必需参数` thrown by processRequestParams
InputError == [src |-> "input", id |-> 0, kind |-> "required"]

\* a test that lets the empty string through
InputMissingOnlyAbsent(body) == ~body.present

\* tts.js:230: `!input`
InputMissing(body) == ~body.present \/ body.input = <<>>

\* tts.js:246-249: `!finalVoice`.  An absent voice is "shimmer" (tts.js:220);
\* a falsy one is looked up by the model, and "tts-1" names no voice.
FinalVoiceMissing(body) ==
  body.voice = "falsy" /\ body.model \notin MappedModels

\* tts.js:200-204, tts.js:230-232, tts.js:249-251: what the request is
\* rejected for, in the order of the throws, or NoError
Rejection(body) ==
  IF ~body.json THEN JsonError
  ELSE IF InputMissing(body) THEN InputError
  ELSE IF FinalVoiceMissing(body) THEN VoiceError
  ELSE NoError

\* part_003:72-75: the catch of onRequest answers with errorResponse(.., 500)
RejectRequest(w, e) ==
  [w EXCEPT !.rpc = "failed",
            !.response = [kind |-> "error", payload |-> <<>>, err |-> e]]

\* part_003:87-127 called from part_003:70-75: a request with this body (as
\* parseRequestParams reads it), this chunk_size, concurrency and stream flag
\* arrives and is handled up to its first await, or to its rejection.  Unit u of the request is the chunk
\* textChunks[u].
HandleSpeechRequest(body, chunk_size, c, s) ==
  LET cleanedInput == cleanText(body.input)
      chunks == smartChunkText(cleanedInput, chunk_size)
      rq == [n |-> Len(chunks), concurrency |-> c, stream |-> s]
      w == IF Rejection(body) # NoError
           THEN RejectRequest(World, Rejection(body))
           ELSE LoopFrom([World EXCEPT !.rpc = "running", !.i = 0], rq, now)
  IN /\ rpc = "none"
     /\ Bounded(w)
     /\ req' = IF Rejection(body) # NoError THEN req ELSE rq
     /\ chunker' = IF Rejection(body) # NoError THEN chunker
                   ELSE [text |-> cleanedInput, maxLength |-> chunk_size,
                         out |-> chunks, st |-> "returned"]
     /\ Commit(w)
     /\ UNCHANGED now

\* one request handled; what other holders of the module asked of
\* getEndpoint, they asked before it arrived
NextHandler ==
  \/ /\ rpc = "none"
     /\ \E body \in Bodies(MaxInput), chunk_size \in 1..MaxChunkLength,
           c \in 1..MaxConcurrency, s \in BOOLEAN :
          HandleSpeechRequest(body, chunk_size, c, s) /\ UNCHANGED gate
  \/ \E u \in Units : SynthOk(u)
  \/ \E u \in Units : SynthFail(u)
  \/ BuffersReady
  \/ \E c \in Directs : rpc = "none" /\ DirectCall(c)
  \/ \E p \in PromiseIds : SignDone(p)
  \/ \E p \in PromiseIds, e \in ExpValues : RefreshOk(p, e)
  \/ \E p \in PromiseIds, k \in RefreshFailKinds : RefreshFail(p, k)
  \/ \E p \in PromiseIds : SignFail(p)

SpecHandler == Init /\ [][NextHandler]_vars

\* ------------------------------------------------ the API key check
\* part_001:294-296
DEFAULT_CONCURRENCY == 10
DEFAULT_CHUNK_SIZE == 300

\* two keys, to tell the right one from a wrong one
Keys == {<<"k", "1">>, <<"k", "2">>}
BearerPrefix == <<"B", "e", "a", "r", "e", "r", " ">>

\* String.prototype.startsWith
StartsWith(str, prefix) ==
  /\ Len(str) >= Len(prefix)
  /\ SubSeq(str, 1, Len(prefix)) = prefix

\* String.prototype.slice(k), k >= 0
SliceFrom(str, k) == SubSeq(str, k + 1, Len(str))

\* the Authorization headers: none, the prefix with a key, the scheme alone
\* (a header value has no trailing blank: Headers strips it), a key without
\* the prefix, the prefix in lower case
AuthHeaders ==
  {<<>>, <<"B", "e", "a", "r", "e", "r">>} \cup {BearerPrefix \o k : k \in Keys}
    \cup Keys \cup {<<"b", "e", "a", "r", "e", "r", " ">> \o k : k \in Keys}
Params == {<<>>} \cup Keys
Methods == {"GET", "POST", "OPTIONS", "PUT"}
Requests == [method : Methods, authorization : AuthHeaders, key : Params,
             api_key : Params]
\* context.env.API_KEY: not set, or a key
Configured == {<<>>} \cup Keys

\* auth.js:45-54: the key the request provides
providedKey(request) ==
  IF request.authorization # <<>>
       /\ StartsWith(request.authorization, BearerPrefix)
  THEN SliceFrom(request.authorization, 7)
  ELSE IF request.key # <<>> THEN request.key ELSE request.api_key

\* a check that is content with any key
validateApiKeyAnyKey(request, apiKey) ==
  IF apiKey = <<>> THEN TRUE ELSE providedKey(request) # <<>>

\* auth.js:40-59
validateApiKey(request, apiKey) ==
  IF apiKey = <<>> THEN TRUE
  ELSE providedKey(request) # <<>> /\ providedKey(request) = apiKey

\* part_003:67: errorResponse("无效的 API 密钥", 401, "invalid_api_key")
KeyError == [src |-> "key", id |-> 0, kind |-> "invalid_api_key"]
\* part_003:90: errorResponse("不允许的方法", 405, "method_not_allowed")
MethodError == [src |-> "method", id |-> 0, kind |-> "method_not_allowed"]
\* part_003:58-61: the 204 of the CORS preflight
PreflightResponse == [kind |-> "preflight", payload |-> <<>>, err |-> NoError]

\* the bodies sent through the check: one that does not parse, one without
\* input, a text of one sentence and a text of two with every voice choice
GateBodies ==
  {BadJson, NoInput} \cup
    {Body(t, v) : t \in {<<"a">>, <<"a", ".", "b">>}, v \in VoiceChoices}

\* a request arrives at onRequest, with any headers and URL parameters, under
\* any API_KEY
InitGate ==
  /\ ProgramInit
  /\ loop = NoLoop
  /\ chunker = NoChunker
  /\ gate \in [request : Requests, apiKey : Configured, st : {"arrived"}]

\* part_003:53-76: onRequest, up to the first await of the handler or to the
\* response.  A GET request carries no concurrency and no chunk_size
\* (tts.js:189-197), so it gets the defaults of tts.js:225-226.  The handler
\* reads no key: of an admitted request the model keeps the verdict.
OnRequest(body, chunk_size, c, s) ==
  /\ gate.st = "arrived"
  /\ rpc = "none"
  /\ IF gate.request.method = "OPTIONS"
     THEN /\ Commit([World EXCEPT !.rpc = "done",
                                  !.response = PreflightResponse])
          /\ gate' = [gate EXCEPT !.st = "preflight"]
          /\ UNCHANGED <<now, req, chunker>>
     ELSE IF gate.apiKey # <<>> /\ ~validateApiKey(gate.request, gate.apiKey)
     THEN /\ Commit(RejectRequest(World, KeyError))
          /\ gate' = [gate EXCEPT !.st = "unauthorized"]
          /\ UNCHANGED <<now, req, chunker>>
     ELSE IF gate.request.method \notin {"POST", "GET"}
     THEN /\ Commit(RejectRequest(World, MethodError))
          /\ gate' = [NoGate EXCEPT !.st = "admitted"]
          /\ UNCHANGED <<now, req, chunker>>
     ELSE /\ IF gate.request.method = "GET"
             THEN HandleSpeechRequest(parseRequestParams("GET", body),
                                      DEFAULT_CHUNK_SIZE,
                                      DEFAULT_CONCURRENCY, s)
             ELSE HandleSpeechRequest(parseRequestParams("POST", body),
                                      chunk_size, c, s)
          /\ gate' = [NoGate EXCEPT !.st = "admitted"]

NextGate ==
  \/ /\ gate.st = "arrived"
     /\ \E body \in GateBodies, chunk_size \in 1..MaxChunkLength,
           c \in 1..MaxConcurrency, s \in BOOLEAN :
          OnRequest(body, chunk_size, c, s)
  \/ \E u \in Units : SynthOk(u)
  \/ \E u \in Units : SynthFail(u)
  \/ BuffersReady
  \/ \E p \in PromiseIds : SignDone(p)
  \/ \E p \in PromiseIds, e \in ExpValues : RefreshOk(p, e)
  \/ \E p \in PromiseIds, k \in RefreshFailKinds : RefreshFail(p, k)
  \/ \E p \in PromiseIds : SignFail(p)

SpecGate == InitGate /\ [][NextGate]_vars

TypeOK ==
  /\ now \in 0..MaxNow
  /\ tokenRefreshing \in BOOLEAN
  /\ tokenRefreshPromise \in 0..MaxRefresh
  /\ rpc \in {"none", "running", "buffers", "done", "failed"}
  /\ \A c \in Callers :
       call[c].st \in {"idle", "cred", "synth", "ok", "fail", "done"}

\* ----------------------------------------------------------------- claims
InFlight == {p \in PromiseIds : refresh[p].st \in {"sign", "fetch"}}
Settled == {p \in PromiseIds : refresh[p].st \in {"fulfilled", "rejected"}}
Started == {p \in PromiseIds : refresh[p].st # "unused"}
AttachedTo(p) == {c \in Callers : call[c].p = p}

\* C1 as stated: when clearTokenCache is never called, the callers of
\* getEndpoint that are waiting at the same time all wait for one refresh,
\* which is the only one in flight and which sends exactly one request to
\* the token endpoint: N callers that found the cache empty or expired
\* together cost one backend call.
C1_SingleFlight ==
  /\ \A c1, c2 \in Callers :
       (call[c1].st = "cred" /\ call[c2].st = "cred") => call[c1].p = call[c2].p
  /\ \A c \in Callers : call[c].st = "cred" => InFlight = {call[c].p}
  /\ Cardinality(InFlight) <= 1
  /\ \A p \in PromiseIds :
       /\ refresh[p].st \in {"unused", "sign"} => backendCalls[p] = 0
       /\ refresh[p].st \in {"fetch", "fulfilled", "rejected"} => backendCalls[p] = 1
  /\ Cardinality(Started) = Cardinality({c \in Callers : call[c].leader})

\* C1 amended: as C1, but the one refresh sends its request only when its
\* signature was made: a refresh whose signature fails has sent no request
\* (its callers get that error), every other refresh that has passed its
\* signature has sent exactly one.
C1_SingleFlightOnceSigned ==
  /\ \A c1, c2 \in Callers :
       (call[c1].st = "cred" /\ call[c2].st = "cred") => call[c1].p = call[c2].p
  /\ \A c \in Callers : call[c].st = "cred" => InFlight = {call[c].p}
  /\ Cardinality(InFlight) <= 1
  /\ \A p \in PromiseIds :
       /\ refresh[p].st \in {"unused", "sign"} => backendCalls[p] = 0
       /\ refresh[p].st \in {"fetch", "fulfilled"} => backendCalls[p] = 1
       /\ refresh[p].st = "rejected" =>
            backendCalls[p] = IF refresh[p].err.kind = SignFailKind
                              THEN 0 ELSE 1
  /\ Cardinality(Started) = Cardinality({c \in Callers : call[c].leader})

\* three callers were served by one refresh that called the backend once
C1_Witness ==
  \E p \in PromiseIds :
    /\ refresh[p].st = "fulfilled"
    /\ backendCalls[p] = 1
    /\ Cardinality(AttachedTo(p)) >= 3
    /\ \A q \in PromiseIds \ {p} : backendCalls[q] = 0

\* C2: at most one credential refresh is in flight, also when clearTokenCache
\* is called between the calls of getEndpoint.
C2_AtMostOneRefreshInFlight == Cardinality(InFlight) <= 1

\* C3: a caller that found the cache not valid and a refresh in flight is
\* attached to that refresh, starts none of its own, waits while it is
\* pending and ends with its outcome: the credential it installed, or its
\* error.
C3_JoinersShareOutcome ==
  /\ \A c \in Callers :
       (call[c].st # "idle" /\ ~call[c].valid /\ call[c].seen # 0) =>
         /\ call[c].p = call[c].seen
         /\ ~call[c].leader
         /\ refresh[call[c].p].st \in {"sign", "fetch"} => call[c].st = "cred"
         /\ refresh[call[c].p].st = "fulfilled" =>
              /\ call[c].st \in {"done", "synth", "ok", "fail"}
              /\ call[c].res = refresh[call[c].p].val
              /\ call[c].res.t.id = call[c].p
         /\ refresh[call[c].p].st = "rejected" =>
              /\ call[c].st \in {"done", "fail"}
              /\ call[c].err = refresh[call[c].p].err
              /\ call[c].res = NullEndpoint
  /\ Cardinality(Started) = Cardinality({c \in Callers : call[c].leader})
  /\ \A p \in PromiseIds : backendCalls[p] <= 1

\* two joiners of one refresh both ended with its error
C3_Witness ==
  \E p \in PromiseIds : \E c1, c2 \in Callers :
    /\ c1 # c2
    /\ refresh[p].st = "rejected"
    /\ \A c \in {c1, c2} :
         /\ call[c].seen = p /\ ~call[c].leader
         /\ call[c].err = refresh[p].err

\* C4: a call of getEndpoint made while the cache is Valid returns the cached
\* endpoint, is attached to no refresh, and leaves the refresh promises, the
\* backend call counts, the flag, the handle and the cache as they were.
C4_ValidServedFromCache ==
  [][\A c \in Callers :
       (call[c].st = "idle" /\ call'[c].st # "idle" /\ Fresh(tokenInfo, now)) =>
         /\ call'[c].p = 0
         /\ ~call'[c].leader
         /\ call'[c].res = tokenInfo.endpoint
         /\ call'[c].st \in {"done", "synth"}
         /\ refresh' = refresh
         /\ backendCalls' = backendCalls
         /\ tokenRefreshing' = tokenRefreshing
         /\ tokenRefreshPromise' = tokenRefreshPromise
         /\ tokenInfo' = tokenInfo]_vars

\* a caller was served the installed credential from the cache
C4_Witness ==
  \E c \in Callers :
    /\ call[c].valid /\ call[c].p = 0
    /\ call[c].st \in {"done", "synth", "ok", "fail"}
    /\ call[c].res = tokenInfo.endpoint
    /\ call[c].res # NullEndpoint

\* refresh p settles in this step, with a failure or with a token
FailsNow(p) ==
  refresh[p].st \in {"sign", "fetch"} /\ refresh'[p].st = "rejected"
LandsNow(p) == refresh[p].st = "fetch" /\ refresh'[p].st = "fulfilled"

\* a call of getEndpoint made in the state this step leads to
ProbeCaller == MaxUnits + 1
ProbeAfter == GetEndpoint(World', ProbeCaller, now')

\* C5 as stated: after a refresh fails the cache equals the initial empty
\* record and is not Valid.
C5_FailureEmptiesCache ==
  [][\A p \in PromiseIds :
       FailsNow(p) => (tokenInfo' = EmptyTokenInfo /\ ~Fresh(tokenInfo', now'))]_vars

\* C5 amended: a failing refresh leaves the cached token, endpoint and expiry
\* exactly as they were (empty if nothing was installed, else the credential
\* installed earlier) and resets the refreshing flag and the handle.  When
\* the failing refresh is the registered one (the flag is set and the handle
\* is its promise) the cache is not Valid after the failure; a refresh that
\* is no longer registered fails without a word on validity, for another
\* refresh may have installed a credential while it ran.
C5_FailureKeepsCache ==
  [][\A p \in PromiseIds :
       FailsNow(p) =>
         /\ tokenInfo' = tokenInfo
         /\ tokenRefreshing' = FALSE
         /\ tokenRefreshPromise' = 0
         /\ refresh'[p].val = NullEndpoint
         /\ (tokenRefreshing /\ tokenRefreshPromise = p) =>
              (~Fresh(tokenInfo', now') /\ ~IsValid(tokenInfo', now'))]_vars

\* the last refresh started has failed and the cache still holds the expired
\* credential an earlier refresh installed
C5_Witness ==
  \E p, q \in PromiseIds :
    /\ q < p
    /\ refresh[q].st = "fulfilled" /\ refresh[p].st = "rejected"
    /\ \A r \in PromiseIds : r > p => refresh[r].st = "unused"
    /\ tokenInfo.endpoint = refresh[q].val
    /\ tokenInfo.expiredAt = 2 * TOKEN_REFRESH_BEFORE_EXPIRY
    /\ ~Fresh(tokenInfo, now)
    /\ ~tokenRefreshing

\* C6 as stated: after a successful refresh the cache is Valid and a call
\* made right after it returns the new credential without a backend call,
\* whatever the expiry of the token.
C6_SuccessAlwaysValid ==
  [][\A p \in PromiseIds :
       LandsNow(p) =>
         /\ tokenInfo'.endpoint = refresh'[p].val
         /\ Fresh(tokenInfo', now')
         /\ ProbeAfter.call[ProbeCaller].res = refresh'[p].val
         /\ ProbeAfter.refresh = refresh']_vars

\* C6 amended: a successful refresh installs the returned credential; a call
\* made right after it returns that credential with no backend call exactly
\* when the token's expiry is more than the 5 minutes lead time ahead, and
\* otherwise starts a new refresh.
C6_SuccessInstalls ==
  [][\A p \in PromiseIds :
       LandsNow(p) =>
         /\ tokenInfo'.endpoint = refresh'[p].val
         /\ tokenInfo'.token = refresh'[p].val.t
         /\ tokenInfo'.token.id = p
         /\ tokenInfo'.expiredAt = refresh'[p].val.t.exp
         /\ ~tokenRefreshing' /\ tokenRefreshPromise' = 0
         /\ IF now' + TOKEN_REFRESH_BEFORE_EXPIRY < refresh'[p].val.t.exp
            THEN /\ ProbeAfter.call[ProbeCaller].st = "resolved"
                 /\ ProbeAfter.call[ProbeCaller].res = refresh'[p].val
                 /\ ProbeAfter.refresh = refresh'
                 /\ ProbeAfter.tokenRefreshing = FALSE
            ELSE /\ ProbeAfter.call[ProbeCaller].leader
                 /\ ProbeAfter.call[ProbeCaller].p \notin Started'
                 /\ ProbeAfter.tokenRefreshing = TRUE]_vars

\* a refresh landed with a token that is still fresh and a later caller was
\* given it from the cache
C6_Witness ==
  \E p \in PromiseIds : \E c \in Callers :
    /\ refresh[p].st = "fulfilled"
    /\ refresh[p].val.t.exp = 2 * TOKEN_REFRESH_BEFORE_EXPIRY
    /\ call[c].p = 0 /\ call[c].st # "idle"
    /\ call[c].res = refresh[p].val

\* the refreshing flag is never set while the cache is Valid
NeverValidWhileRefreshing == ~(Fresh(tokenInfo, now) /\ tokenRefreshing)

\* the units of the request, the effective concurrency, a unit's batch
ReqUnits == 1..req.n
Effective == optimalConcurrency(req.concurrency, req.n)
BatchIndex(u) == (u - 1) \div Effective
Pending == {u \in Units : call[u].st \in {"cred", "synth"}}

\* C7: when the buffered request has ended without a failure, its payload is
\* the audio of the units in input order, each unit once, whatever the order
\* in which the synthesis calls completed.
C7_BufferedInputOrder ==
  (~req.stream /\ rpc = "done") =>
    /\ response.kind = "audio"
    /\ response.payload = textChunks(req)
    /\ \A u \in ReqUnits : call[u].st = "ok"

\* a buffered request ended well although its calls completed out of order
C7_Witness ==
  /\ ~req.stream /\ rpc = "done" /\ req.n >= 2
  /\ Len(completed) = req.n
  /\ completed # textChunks(req)
  /\ response.payload = textChunks(req)

\* C8: as soon as a call of a buffered request has failed, the request has
\* failed with the error of the first call that failed, and its response
\* carries no audio, neither of the batches completed before nor of the
\* other calls of the failing batch.
C8_BufferedFailFast ==
  (~req.stream /\ \E u \in ReqUnits : call[u].st = "fail") =>
    /\ rpc = "failed"
    /\ response.kind = "error"
    /\ response.payload = <<>>
    /\ firstFail # NoError
    /\ response.err = firstFail

\* a synthesis call failed after an earlier batch had been collected: the
\* collected audio is not in the response
C8_Witness ==
  /\ ~req.stream /\ rpc = "failed"
  /\ allAudioBlobs # <<>>
  /\ response.err.src = "synth"
  /\ \E u \in ReqUnits : call[u].st = "ok"
  /\ response.payload = <<>>

\* C9: no unit is sent to the synthesis backend twice; when a call of batch
\* k has failed, the calls of the later batches were never made; and when
\* the request has ended without a failure every unit was sent exactly once.
C9_NoRetryNoLaterBatch ==
  /\ \A u \in Units : synthCalls[u] <= 1
  /\ \A u \in Units \ ReqUnits : synthCalls[u] = 0
  /\ \A u, v \in ReqUnits :
       (call[u].st = "fail" /\ BatchIndex(v) > BatchIndex(u)) =>
         (call[v].st = "idle" /\ synthCalls[v] = 0)
  /\ (\E u \in ReqUnits : call[u].st = "fail") => rpc = "failed"
  /\ rpc = "done" => \A u \in ReqUnits : synthCalls[u] = 1

\* the second batch failed: the first was sent once, the third never
C9_Witness ==
  /\ rpc = "failed"
  /\ \E u, v, x \in ReqUnits :
       /\ BatchIndex(u) < BatchIndex(v) /\ BatchIndex(v) < BatchIndex(x)
       /\ call[u].st = "ok" /\ synthCalls[u] = 1
       /\ call[v].st = "fail" /\ call[v].err.src = "synth"
       /\ call[x].st = "idle" /\ synthCalls[x] = 0

\* C10: for a request with requestedConcurrency >= 1, in buffered and in
\* streaming mode, the calls of getAudioChunk that have not settled are never
\* more than the effective concurrency, also after the request has failed.
C10_InFlightBound ==
  rpc # "none" => Cardinality(Pending) <= Effective

\* a streamed request has failed and two other calls of its batch are still
\* waiting for the synthesis backend
C10_Witness ==
  /\ rpc = "failed" /\ req.stream
  /\ Cardinality({u \in ReqUnits : call[u].st = "synth"}) >= 2
  /\ Cardinality(Pending) = Effective - 1

\* the calls of the request that were made
Issued == {u \in Units : call[u].st # "idle"}

\* C11: batches run one after the other: whenever a call of a batch has been
\* issued, every call of every earlier batch has completed, so the calls that
\* have not settled all belong to one batch; after a failure no later batch
\* is started at all.
C11_BatchesSequential ==
  /\ \A u, v \in ReqUnits :
       (BatchIndex(u) < BatchIndex(v) /\ v \in Issued) => call[u].st = "ok"
  /\ \A u, v \in Pending : BatchIndex(u) = BatchIndex(v)
  /\ Issued \subseteq ReqUnits

\* a later batch is running, one of its calls is at the synthesis backend,
\* and the calls of the batch before it have completed
C11_Witness ==
  /\ rpc = "running" /\ Effective < req.n
  /\ \E u, v \in ReqUnits :
       /\ BatchIndex(u) < BatchIndex(v)
       /\ call[u].st = "ok" /\ v \in Pending
  /\ \E v \in ReqUnits : BatchIndex(v) >= 1 /\ call[v].st = "synth"

\* the batch size of the loop under study and its chunk list
LoopSize == optimalConcurrency(loop.concurrency, loop.n)
LoopChunks == textChunks(loop)
\* max(5, ceil(n/3)) said without division: the least m >= 5 with 3m >= n
FloorOrThird(n) ==
  CHOOSE m \in 5..(n + 5) : 3 * m >= n /\ \A k \in 5..(m - 1) : 3 * k < n

\* C12: for requestedConcurrency >= 1 and n >= 0 the batch size is the least
\* of requestedConcurrency, n and max(5, ceil(n/3)), and the batches the loop
\* makes are the consecutive pieces of the unit list of exactly that size,
\* the last one holding what is left; together they are the whole list.
C12_BatchPartition ==
  /\ LoopSize <= loop.concurrency /\ LoopSize <= loop.n
  /\ LoopSize <= FloorOrThird(loop.n)
  /\ LoopSize \in {loop.concurrency, loop.n, FloorOrThird(loop.n)}
  /\ loop.i = Len(loop.batches) * LoopSize
  /\ \A j \in 1..Len(loop.batches) :
       /\ loop.batches[j] =
            [k \in 1..Min(LoopSize, loop.n - (j - 1) * LoopSize) |->
               LoopChunks[(j - 1) * LoopSize + k]]
       /\ Len(loop.batches[j]) >= 1
       /\ j < Len(loop.batches) => Len(loop.batches[j]) = LoopSize
  /\ loop.st = "done" =>
       /\ Len(loop.batches) * LoopSize >= loop.n
       /\ loop.n = 0 => loop.batches = <<>>
       /\ loop.n > 0 => (Len(loop.batches) - 1) * LoopSize < loop.n

\* a list cut by the max(5, ceil(n/3)) term into three or more batches, the
\* last one shorter than the others
C12_Witness ==
  /\ loop.st = "done"
  /\ LoopSize < loop.concurrency /\ LoopSize < loop.n
  /\ Len(loop.batches) >= 3
  /\ Len(loop.batches[Len(loop.batches)]) < LoopSize

\* C13 as stated: for requestedConcurrency >= 1 and n >= 1 the effective
\* concurrency is in [1, n], and it is at least min(5, n) whenever n >= 5.
C13_FloorOfFive ==
  loop.n >= 1 =>
    /\ 1 <= LoopSize /\ LoopSize <= loop.n
    /\ loop.n >= 5 => LoopSize >= Min(5, loop.n)

\* C13 amended: for requestedConcurrency >= 1 and n >= 1 the effective
\* concurrency is in [1, n] and never above requestedConcurrency; it is at
\* least min(requestedConcurrency, 5, n), so the floor of 5 holds for n >= 5
\* only when requestedConcurrency >= 5.
C13_EffectiveRange ==
  loop.n >= 1 =>
    /\ 1 <= LoopSize /\ LoopSize <= loop.n
    /\ LoopSize <= loop.concurrency
    /\ LoopSize >= Min(loop.concurrency, Min(5, loop.n))
    /\ (loop.n >= 5 /\ loop.concurrency >= 5) => LoopSize >= 5
    /\ (loop.n >= 5 /\ loop.concurrency < 5) => LoopSize = loop.concurrency

\* five or more units and a requested concurrency below 5: the first batch
\* was made with fewer than 5 calls
C13_Witness ==
  /\ loop.n >= 5 /\ loop.concurrency < 5
  /\ Len(loop.batches) >= 1
  /\ Len(loop.batches[1]) = loop.concurrency
  /\ LoopSize < Min(5, loop.n)

\* C14: when ceil(n/3) >= 5, that is n >= 13, then for every
\* requestedConcurrency >= 1 two batches never cover the list, and the loop
\* ends having made at least 3 batches.
C14_AtLeastThreeBatches ==
  loop.n >= 13 =>
    /\ 2 * LoopSize < loop.n
    /\ loop.i >= loop.n => Len(loop.batches) >= 3
    /\ loop.st = "done" => Len(loop.batches) >= 3

\* a list of 13 or more units was processed in exactly 3 batches
C14_Witness ==
  /\ loop.n >= 13 /\ loop.st = "done"
  /\ Len(loop.batches) = 3
  /\ LoopSize = FloorOrThird(loop.n)

\* the blocks written to the stream so far, as the units whose audio they are
Writes == SelectSeq(writer, LAMBDA o : o.op = "write")
WrittenUnits == [j \in 1..Len(Writes) |-> Writes[j].u]

\* C15: in streaming mode the blocks written are at every moment the audio
\* of the first units of the input, in input order and in whole batches; a
\* unit is written only when every call of its batch has completed, and a
\* call of a batch is issued only when the batches before it are written;
\* nothing is written after the writer was closed or aborted.
C15_StreamPrefixOrder ==
  /\ ~req.stream => writer = <<>>
  /\ req.stream =>
       LET written == WrittenUnits
           m == Len(written)
       IN /\ written = SubSeq(textChunks(req), 1, m)
          /\ m = Min(i, req.n)
          /\ \A u, v \in ReqUnits :
               (u <= m /\ BatchIndex(v) = BatchIndex(u)) =>
                 (v <= m /\ call[v].st = "ok")
          /\ \A u, v \in ReqUnits :
               (call[v].st # "idle" /\ BatchIndex(u) < BatchIndex(v)) => u <= m
          /\ \A j, k \in 1..Len(writer) :
               (j < k /\ writer[j].op # "write") => writer[k].op # "write"

\* the two calls of the first batch completed last one first, their audio
\* was written first one first, and the next batch has been issued
C15_Witness ==
  /\ req.stream /\ Len(completed) >= 2
  /\ completed[1] = 2 /\ completed[2] = 1
  /\ Len(WrittenUnits) >= 2
  /\ WrittenUnits[1] = 1 /\ WrittenUnits[2] = 2
  /\ \E v \in Issued : BatchIndex(v) = 1

\* the units of the last batch, and the operations that end the writer
LastBatch == {u \in ReqUnits : \A v \in ReqUnits : BatchIndex(v) <= BatchIndex(u)}
Terminals == SelectSeq(writer, LAMBDA o : o.op \in {"close", "abort"})

\* C16: a streamed request of two or more batches has its response returned
\* before the synthesis calls of its last batch have completed: whenever
\* they have all completed, the caller already holds the response.
C16_ResponseBeforeLastBatch ==
  (/\ req.stream /\ rpc # "none"
   /\ Effective < req.n
   /\ \A u \in LastBatch : call[u].st = "ok") => response.kind = "stream"

\* C17: once the streaming pipeline has ended, well or not, exactly one
\* terminal operation was performed on the writer, one close or one abort,
\* and never more than one at any time.
C17_ExactlyOneTerminalOp ==
  req.stream =>
    /\ Len(Terminals) <= 1
    /\ rpc \in {"done", "failed"} => Len(Terminals) = 1

\* C18: in streaming mode, as soon as a synthesis or credential call has
\* failed the writer has been aborted with the error of that call before any
\* close, the caller has an error response and no stream; and a stream
\* response is only ever given when no call failed and every unit's audio
\* was written, so the caller never reads a cleanly closed partial body.
C18_StreamFailureAborts ==
  req.stream =>
    /\ (\E u \in ReqUnits : call[u].st = "fail") =>
         /\ rpc = "failed"
         /\ firstFail # NoError
         /\ Len(Terminals) >= 1
         /\ Terminals[1].op = "abort" /\ Terminals[1].err = firstFail
         /\ response.kind = "error" /\ response.err = firstFail
    /\ response.kind = "stream" =>
         /\ \A u \in ReqUnits : call[u].st = "ok"
         /\ WrittenUnits = textChunks(req)
         /\ \A j \in 1..Len(writer) : writer[j].op # "abort"
    /\ response.kind # "audio"

\* the first batch was written to the stream, then a call of the second
\* batch failed: the writer was aborted with its error and the caller got
\* the error response
C18_Witness ==
  /\ req.stream /\ rpc = "failed"
  /\ Len(WrittenUnits) >= 1
  /\ Len(Terminals) >= 1 /\ Terminals[1].op = "abort"
  /\ Terminals[1].err.src = "synth"
  /\ response.kind = "error"

\* C19: in streaming mode, when every synthesis call and every refresh
\* succeeds, the writer is never aborted, it is closed only after the audio
\* of every unit of every batch was written, the close is the last thing
\* done to it, and a request that was started ends with the writer closed.
C19_CleanCloseEventually ==
  /\ [](req.stream =>
         /\ \A j \in 1..Len(writer) :
              /\ writer[j].op # "abort"
              /\ writer[j].op = "close" =>
                   (j = Len(writer) /\ WrittenUnits = textChunks(req))
         /\ rpc = "done" => Terminals = <<CloseOp>>)
  /\ ((req.stream /\ rpc = "running") ~>
        (rpc = "done" /\ Terminals = <<CloseOp>>
                      /\ WrittenUnits = textChunks(req)))

\* a streamed request of more than one batch ended with every unit written
\* and then one close
C19_Witness ==
  /\ req.stream /\ rpc = "done" /\ Effective < req.n
  /\ writer = [j \in 1..req.n |-> WriteOp(j)] \o <<CloseOp>>
  /\ response.kind = "stream"

\* C20: a buffered request gives one response and never changes it; an audio
\* response is given only when the loop has passed the last batch with every
\* call completed, and its payload is then the audio of all units in input
\* order; once a call has failed the response is the error response, with
\* no audio, and no audio response is given afterwards.
C20_BufferedOneResponse ==
  [][~req'.stream =>
       /\ response # NoResponse => response' = response
       /\ response'.kind \in {"none", "audio", "error"}
       /\ response'.kind = "audio" =>
            /\ rpc' = "done" /\ i' >= req'.n
            /\ \A u \in 1..req'.n : call'[u].st = "ok"
            /\ response'.payload = textChunks(req')
            /\ response'.payload = allAudioBlobs'
            /\ response'.err = NoError
       /\ (\E u \in 1..req'.n : call'[u].st = "fail") =>
            /\ response'.kind = "error"
            /\ response'.payload = <<>>
       /\ response'.kind = "none" <=> rpc' \in {"none", "running"}]_vars

\* a buffered request of more than one batch was answered with the audio of
\* all its units
C20_Witness ==
  /\ ~req.stream /\ rpc = "done" /\ Effective < req.n
  /\ response.kind = "audio"
  /\ Len(response.payload) = req.n
  /\ i >= req.n

\* C21: the synthesis request of a unit is sent only once getEndpoint has
\* given that unit a credential, from the cache or from the refresh it
\* waited for; while the unit waits nothing is sent; and when the refresh
\* it waited for fails, nothing is ever sent for it and the request has
\* failed.
C21_SynthAfterCredential ==
  \A u \in Units :
    /\ synthCalls[u] >= 1 =>
         /\ call[u].st \in {"synth", "ok", "fail"}
         /\ call[u].res # NullEndpoint
         /\ call[u].res.t.id >= 1
         /\ call[u].p # 0 =>
              /\ refresh[call[u].p].st = "fulfilled"
              /\ call[u].res = refresh[call[u].p].val
         /\ call[u].st = "fail" => call[u].err.src = "synth"
    /\ call[u].st = "cred" => synthCalls[u] = 0
    /\ (call[u].st = "fail" /\ call[u].err.src = "cred") =>
         /\ synthCalls[u] = 0
         /\ call[u].res = NullEndpoint
         /\ refresh[call[u].p].st = "rejected"
         /\ rpc = "failed"

\* a unit of a later batch got no credential and was never sent, after a
\* unit of an earlier batch had been synthesized
C21_Witness ==
  \E u, v \in ReqUnits :
    /\ call[u].st = "fail" /\ call[u].err.src = "cred"
    /\ synthCalls[u] = 0
    /\ call[v].st = "ok" /\ synthCalls[v] = 1
    /\ rpc = "failed"

\* refresh p is running but is no longer the pending one: clearTokenCache
\* was called after it started (or a refresh started after that has reset
\* the handle)
Detached(p) ==
  /\ refresh[p].st \in {"sign", "fetch"}
  /\ ~(tokenRefreshing /\ tokenRefreshPromise = p)

\* C22: a refresh that clearTokenCache detached is not cancelled: it goes
\* on, it is rejected only by the failure of its own signature or of its
\* own request, and when it lands with a token the cache holds that
\* refresh's credential and expiry, and every caller that was waiting for
\* it receives that credential.
C22_DetachedRefreshInstalls ==
  [][\A p \in PromiseIds :
       Detached(p) =>
         /\ refresh'[p].st # "unused"
         /\ refresh'[p].st = "rejected" =>
              \/ /\ refresh[p].st = "fetch"
                 /\ refresh'[p].err.src = "cred" /\ refresh'[p].err.id = p
                 /\ refresh'[p].err.kind \in RefreshFailKinds
              \/ /\ refresh[p].st = "sign"
                 /\ refresh'[p].err = CredError(p, SignFailKind)
         /\ LandsNow(p) =>
              /\ tokenInfo'.endpoint = refresh'[p].val
              /\ tokenInfo'.token.id = p
              /\ tokenInfo'.expiredAt = refresh'[p].val.t.exp
              /\ \A c \in Callers :
                   (call[c].st = "cred" /\ call[c].p = p) =>
                     /\ call'[c].st # "cred"
                     /\ call'[c].res = refresh'[p].val]_vars

\* refresh p landed with a token that is still fresh and is the installed
\* one, a joiner received it, and a second refresh, which can only have
\* started after a clearTokenCache during p's flight, is still running
C22_Witness ==
  \E p, q \in PromiseIds : \E c \in Callers :
    /\ p < q /\ now = 0
    /\ refresh[p].st = "fulfilled"
    /\ refresh[p].val.t.exp = 2 * TOKEN_REFRESH_BEFORE_EXPIRY
    /\ refresh[q].st \in {"sign", "fetch"}
    /\ \A r \in PromiseIds \ {p} : refresh[r].st # "fulfilled"
    /\ tokenInfo.endpoint = refresh[p].val
    /\ call[c].p = p /\ ~call[c].leader
    /\ call[c].res = refresh[p].val

\* clearTokenCache called in the current state, and a call of getEndpoint
\* made right after it
AfterClear == ClearedCache(World)
ProbeAfterClear == GetEndpoint(AfterClear, ProbeCaller, now)

\* C23: clearTokenCache, called in any state, leaves no token, no endpoint,
\* no expiry, the refreshing flag false and no pending handle, and touches
\* nothing else; when no refresh is in flight the call of getEndpoint that
\* follows it starts a new refresh, also when the credential cleared was
\* still fresh.  A step that empties the cache is such a call.
C23_InvalidateResets ==
  /\ [](/\ AfterClear.tokenInfo = EmptyTokenInfo
        /\ AfterClear.tokenInfo = [endpoint |-> NullEndpoint,
                                   token |-> NullToken, expiredAt |-> Null]
        /\ AfterClear.tokenRefreshing = FALSE
        /\ AfterClear.tokenRefreshPromise = 0
        /\ AfterClear.refresh = refresh /\ AfterClear.call = call
        /\ AfterClear.backendCalls = backendCalls
        /\ InFlight = {} =>
             LET p == ProbeAfterClear.call[ProbeCaller].p IN
             /\ ProbeAfterClear.call[ProbeCaller].st = "cred"
             /\ ProbeAfterClear.call[ProbeCaller].leader
             /\ p \notin Started
             /\ ProbeAfterClear.refresh[p].st = "sign"
             /\ ProbeAfterClear.tokenRefreshing)
  /\ [][(tokenInfo # EmptyTokenInfo /\ tokenInfo' = EmptyTokenInfo) =>
          /\ tokenRefreshing' = FALSE /\ tokenRefreshPromise' = 0
          /\ refresh' = refresh /\ call' = call
          /\ backendCalls' = backendCalls /\ synthCalls' = synthCalls]_vars

\* a fresh credential was installed and then cleared while nothing was in
\* flight; the next caller found the cache empty and started a new refresh
C23_Witness ==
  \E p, q \in PromiseIds : \E c \in Callers :
    /\ p < q /\ now = 0
    /\ refresh[p].st = "fulfilled"
    /\ refresh[p].val.t.exp = 2 * TOKEN_REFRESH_BEFORE_EXPIRY
    /\ tokenInfo = EmptyTokenInfo
    /\ InFlight = {q} /\ Started = {p, q}
    /\ call[c].leader /\ call[c].p = q
    /\ ~call[c].valid /\ call[c].seen = 0
    /\ tokenRefreshing /\ tokenRefreshPromise = q

\* the characters of str that are no whitespace, in order
NonSpace(str) == SelectSeq(str, LAMBDA ch : ~IsWhitespace(ch))
\* unit occurs in str as a run of consecutive characters
OccursIn(unit, str) ==
  \E k \in 0..(Len(str) - Len(unit)) : SubSeq(str, k + 1, k + Len(unit)) = unit
\* the call under study has returned for a non-empty text and maxLength > 0
Chunked ==
  chunker.st = "returned" /\ chunker.text # <<>> /\ chunker.maxLength > 0

\* C24: for a non-empty text and maxLength > 0, the units joined in order
\* carry exactly the non-whitespace characters of the text, delimiters
\* included, in the order of the text; each unit is a run of consecutive
\* characters of the text, and the units are not longer together than the
\* text.
C24_ChunksPreserveContent ==
  Chunked =>
    /\ NonSpace(Join(chunker.out)) = NonSpace(chunker.text)
    /\ \A j \in 1..Len(chunker.out) : OccursIn(chunker.out[j], chunker.text)
    /\ Len(Join(chunker.out)) <= Len(chunker.text)

\* a text with a full stop and a blank inside was cut into two units; the
\* full stop is kept and the blank at the cut is gone
C24_Witness ==
  /\ Chunked /\ Len(chunker.out) = 2
  /\ \E k \in 1..Len(Join(chunker.out)) : Join(chunker.out)[k] = "."
  /\ Len(Join(chunker.out)) < Len(chunker.text)
  /\ \E k \in 1..Len(chunker.text) : chunker.text[k] = " "

\* C25: for a non-empty text and maxLength > 0 every unit is at most
\* maxLength characters long, unless the units were made by the fixed-width
\* fallback.
C25_UnitsWithinMaxLength ==
  Chunked =>
    \/ UsesFallback(chunker.text, chunker.maxLength)
    \/ \A j \in 1..Len(chunker.out) : Len(chunker.out[j]) <= chunker.maxLength

\* the text has no character of the delimiter class
Unpunctuated(text) == \A k \in 1..Len(text) : ~IsDelimiter(text[k])

\* C26: a non-empty text without boundary punctuation that is longer than
\* maxLength is returned as the consecutive windows of maxLength characters
\* of the raw text, the last one possibly shorter.
C26_FallbackWindows ==
  (Chunked /\ Unpunctuated(chunker.text)
     /\ Len(chunker.text) > chunker.maxLength) =>
    chunker.out = FixedWidth(chunker.text, chunker.maxLength)

\* C27: for every text and maxLength > 0 no returned unit is empty and none
\* begins or ends with whitespace; a text of whitespace only gives no unit.
C27_UnitsTrimmedNonEmpty ==
  (chunker.st = "returned" /\ chunker.maxLength > 0) =>
    /\ \A j \in 1..Len(chunker.out) :
         LET unit == chunker.out[j] IN
         /\ unit # <<>>
         /\ ~IsWhitespace(unit[1])
         /\ ~IsWhitespace(unit[Len(unit)])
    /\ NonSpace(chunker.text) = <<>> => chunker.out = <<>>

\* a text that begins and ends with whitespace was cut into two units
C27_Witness ==
  /\ chunker.st = "returned" /\ chunker.maxLength > 0
  /\ Len(chunker.text) >= 2
  /\ IsWhitespace(chunker.text[1])
  /\ IsWhitespace(chunker.text[Len(chunker.text)])
  /\ Len(chunker.out) = 2

\* C28: the empty text gives the empty sequence, whatever maxLength is.
C28_EmptyTextNoUnits ==
  (chunker.st = "returned" /\ chunker.text = <<>>) => chunker.out = <<>>

\* the call for the empty text has returned, with maxLength 0
C28_Witness ==
  /\ chunker.st = "returned" /\ chunker.text = <<>>
  /\ chunker.maxLength = 0 /\ chunker.out = <<>>

\* a request for buffered mode was accepted whose cleaned text has a
\* character that is no whitespace and is not longer than chunk_size
FitsOneUnit ==
  /\ chunker.st = "returned" /\ rpc # "none" /\ ~req.stream
  /\ Len(chunker.text) <= chunker.maxLength
  /\ NonSpace(chunker.text) # <<>>

\* C29: a cleaned text with a non-whitespace character that is not longer
\* than maxLength is one unit, the trimmed text; buffered mode then calls
\* getAudioChunk once, for that unit, which sends at most one synthesis
\* request, and a request that ends well has sent exactly one and answers
\* with the audio of that unit alone.
C29_OneUnitOnePayload ==
  FitsOneUnit =>
    /\ chunker.out = <<Trim(chunker.text)>>
    /\ req.n = 1
    /\ call[1].st # "idle"
    /\ \A u \in Units \ {1} : synthCalls[u] = 0 /\ call[u].st = "idle"
    /\ synthCalls[1] <= 1
    /\ rpc = "done" =>
         /\ synthCalls[1] = 1
         /\ response.kind = "audio"
         /\ response.payload = <<1>>
    /\ rpc = "failed" => response.kind = "error" /\ response.payload = <<>>

\* a text with a delimiter that is exactly chunk_size long was answered with
\* the audio of its one unit
C29_Witness ==
  /\ FitsOneUnit /\ rpc = "done"
  /\ Len(chunker.text) = chunker.maxLength
  /\ ~Unpunctuated(chunker.text)
  /\ response.payload = <<1>>

\* the request bodies whose `input` is missing or empty
WithoutInput == {NoInput} \cup {Body(<<>>, v) : v \in VoiceChoices}
\* the request was rejected for its input
RejectedForInput == rpc = "failed" /\ response.err = InputError

\* C30: the step that handles a request whose input is missing or empty
\* answers it with the input error and changes nothing else: the
\* credential cache, the refresh flag and promise, the refreshes and the
\* requests sent to the token and the synthesis backends stay as they were,
\* and no unit is scheduled; nor is any call made for it afterwards.
C30_MissingInputRejected ==
  /\ [](RejectedForInput =>
          \A u \in Units : call[u].st = "idle" /\ synthCalls[u] = 0)
  /\ [][rpc = "none" =>
          \A body \in WithoutInput, chunk_size \in 1..MaxChunkLength,
             c \in 1..MaxConcurrency, s \in BOOLEAN :
            HandleSpeechRequest(body, chunk_size, c, s) =>
              /\ RejectedForInput'
              /\ response'.kind = "error"
              /\ UNCHANGED <<tokenInfo, tokenRefreshing, tokenRefreshPromise,
                             refresh, backendCalls, call, synthCalls, req, i,
                             allAudioBlobs, completed, writer, chunker>>]_vars

\* a request without input was rejected while another caller's refresh was
\* in flight, and the refresh is still in flight
C30_Witness ==
  /\ RejectedForInput
  /\ tokenRefreshing
  /\ \E p \in InFlight : tokenRefreshPromise = p /\ backendCalls[p] = 1

\* the call has returned for a non-empty text: the loop has run
LoopRan == chunker.st = "returned" /\ chunker.text # <<>>

\* C31: the pass over the pieces is greedy.  The buffers that were flushed,
\* laid end to end, are the pieces of the split, each piece once and whole;
\* no buffer is empty; for two consecutive buffers the untrimmed length of
\* the earlier one plus the length of the first piece of the later one
\* exceeds maxLength; and the units returned are the trimmed buffers that
\* are not empty.
C31_GreedyBuffers ==
  LoopRan =>
    LET bs == Buffers(chunker.text, chunker.maxLength)
        trimmed == [j \in 1..Len(bs) |-> Trim(Join(bs[j]))]
    IN /\ Join(bs) = SplitSentences(chunker.text)
       /\ \A j \in 1..Len(bs) : bs[j] # <<>>
       /\ \A j \in 1..(Len(bs) - 1) :
            Len(Join(bs[j])) + Len(Head(bs[j + 1])) > chunker.maxLength
       /\ chunker.out = SelectSeq(trimmed, LAMBDA c : c # <<>>)

\* two buffers were flushed, the first made of two pieces or more that fill
\* it exactly
C31_Witness ==
  /\ LoopRan
  /\ LET bs == Buffers(chunker.text, chunker.maxLength)
     IN /\ Len(bs) = 2
        /\ Len(bs[1]) >= 2
        /\ Len(Join(bs[1])) = chunker.maxLength
        /\ Len(chunker.out) = 2

\* the units of the batch of u whose call has failed
FailedWith(u) ==
  {v \in ReqUnits : BatchIndex(v) = BatchIndex(u) /\ call[v].st = "fail"}

\* C32: nothing times a call out or cancels it.  While a call of a batch has
\* not settled and no call of that batch has failed, the request has not
\* ended, it has no response, and no call of a later batch has been issued;
\* when another call of the batch has failed, the request has failed with
\* the error response although the first call is still outstanding; and the
\* passing of time settles no call and ends no request.
C32_StalledCallStallsBatch ==
  /\ [](\A u \in ReqUnits \cap Pending :
          /\ FailedWith(u) = {} =>
               /\ rpc = "running"
               /\ response = NoResponse
               /\ \A v \in ReqUnits :
                    BatchIndex(v) > BatchIndex(u) => v \notin Issued
          /\ FailedWith(u) # {} =>
               /\ rpc = "failed"
               /\ response.kind = "error"
               /\ \A v \in ReqUnits :
                    BatchIndex(v) > BatchIndex(u) => v \notin Issued)
  /\ [][now' # now =>
          /\ call' = call /\ synthCalls' = synthCalls
          /\ rpc' = rpc /\ response' = response]_vars

\* time has passed, a buffered request of two batches has failed on a call
\* of its first batch, and another call of that batch is still at the
\* synthesis backend
C32_Witness ==
  /\ ~req.stream /\ rpc = "failed" /\ now > 0
  /\ Effective < req.n
  /\ \E u \in ReqUnits :
       /\ call[u].st = "synth"
       /\ BatchIndex(u) = 0
       /\ FailedWith(u) # {}

\* the request of the other mode: same units, same requested concurrency
Twin == [req EXCEPT !.stream = ~@]
\* two worlds have issued the same calls: the same callers stand where they
\* stand, the same requests went to both backends, and the loop index agrees
SameCalls(w1, w2) ==
  /\ w1.call = w2.call
  /\ w1.synthCalls = w2.synthCalls
  /\ w1.refresh = w2.refresh
  /\ w1.backendCalls = w2.backendCalls
  /\ w1.tokenRefreshPromise = w2.tokenRefreshPromise
  /\ w1.i = w2.i
\* the audio a world has put out: written to the stream, or collected
Output(w, rq) ==
  IF rq.stream
  THEN LET ws == SelectSeq(w.writer, LAMBDA o : o.op = "write")
       IN [j \in 1..Len(ws) |-> ws[j].u]
  ELSE w.allAudioBlobs
\* a unit's call is the first of its batch
FirstOfBatch(u) == (u - 1) % Effective = 0

\* C33: the two modes schedule alike.  The loop of pipeChunksToStream and
\* the loop of getVoice compute the same effective concurrency for every
\* unit count and requested concurrency >= 1, and at every index the loop
\* comes to cut the same batch out of the request's units.  In either mode the calls issued
\* are whole batches of the effective concurrency, the first batches of the
\* list, and within a batch the calls are made in input order (a unit that
\* starts a refresh is the first of its batch, the others join it); at the
\* start of a request and at the end of every batch the step taken issues
\* the very calls the request of the other mode would issue from there; the
\* audio put out at the end of a batch is the same in both; and a request
\* that ended well has put out the audio of all units in input order,
\* written to the stream or as payload.
C33_ModesScheduleAlike ==
  /\ [](rpc # "none" =>
          /\ PipeBatch(World, req) = VoiceBatch(World, req)
          /\ \A u \in Issued, v \in ReqUnits :
               BatchIndex(v) <= BatchIndex(u) => v \in Issued
          /\ \A u \in ReqUnits : call[u].leader => FirstOfBatch(u)
          /\ rpc = "done" => Output(World, req) = textChunks(req))
  /\ [][(rpc = "none" /\ rpc' # "none") =>
          /\ \A n \in 0..MaxChunks, c \in 1..MaxRequested :
               pipeOptimalConcurrency(c, n) = optimalConcurrency(c, n)
          /\ SameCalls(LoopFrom([World EXCEPT !.rpc = "running", !.i = 0],
                                [req' EXCEPT !.stream = ~@], now),
                       World')]_vars
  /\ [][(rpc = "buffers" /\ rpc' # "buffers") =>
          LET t == BatchDone([World EXCEPT !.rpc = "running"], Twin,
                             CurrentBatch(World, Twin), now)
          IN /\ SameCalls(t, World')
             /\ Output(World, req) \o Output(t, Twin) = Output(World', req)]_vars
  /\ [][\A u \in Units :
          (~req.stream /\ rpc = "running"
             /\ call[u].st = "synth" /\ call'[u].st = "ok") =>
            LET t1 == Settle(UnitOk(World, u), Twin, u, now)
                t == IF t1.rpc = "buffers"
                     THEN BatchDone([t1 EXCEPT !.rpc = "running"], Twin,
                                    CurrentBatch(t1, Twin), now)
                     ELSE t1
            IN /\ SameCalls(t, World')
               /\ Output(World, req) \o Output(t, Twin)
                    = Output(World', req)]_vars

\* a streamed request of two batches or more ended well with the audio of
\* all its units written in input order, although the calls of a batch
\* completed in another order
C33_Witness ==
  /\ req.stream /\ rpc = "done" /\ Effective < req.n
  /\ Output(World, req) = textChunks(req)
  /\ completed # textChunks(req)
  /\ \E u \in ReqUnits : call[u].leader /\ BatchIndex(u) >= 1

\* C34: for n >= 1 and any integer requested concurrency, every pass of the
\* batch loop moves the index forward by at least one unit.
C34_LoopAdvances ==
  [][Len(loop'.batches) > Len(loop.batches) => loop'.i >= loop.i + 1]_vars

\* C35: a caller of getEndpoint waits only for a refresh that is still
\* running; the step in which a refresh settles, detached or not, resumes
\* every caller waiting for it, with its credential or with its error; and
\* when every token call is answered, every caller that waits is resumed in
\* the end.
C35_CallersComplete ==
  /\ [](\A c \in Callers : call[c].st = "cred" => call[c].p \in InFlight)
  /\ [][\A p \in InFlight : \A c \in Callers :
          (p \in Settled' /\ call[c].st = "cred" /\ call[c].p = p) =>
            /\ call'[c].st # "cred"
            /\ refresh'[p].st = "fulfilled" => call'[c].res = refresh'[p].val
            /\ refresh'[p].st = "rejected" => call'[c].err = refresh'[p].err]_vars
  /\ \A c \in Callers : (call[c].st = "cred") ~> (call[c].st # "cred")

\* a caller that joined a refresh which clearTokenCache then detached has
\* received that refresh's credential while a later refresh is still running
C35_Witness ==
  \E p, q \in PromiseIds : \E c \in Callers :
    /\ p < q
    /\ refresh[p].st = "fulfilled" /\ refresh[q].st \in {"sign", "fetch"}
    /\ call[c].p = p /\ ~call[c].leader /\ call[c].seen = p
    /\ call[c].st # "cred"
    /\ call[c].res = refresh[p].val
    /\ \E d \in Callers : call[d].p = q /\ call[d].st = "cred"

\* refresh p settles in this step
SettlesNow(p) == p \in InFlight /\ p \in Settled'

\* C36: the step in which a refresh settles, by success or by failure,
\* leaves the refreshing flag false and the handle null; a failure leaves
\* the cache as it was and the failed refresh holds no credential; a call of
\* getEndpoint made right after the step, if it finds the cache not valid,
\* starts a refresh of its own, one that did not exist before.  At any time
\* a set flag comes with the handle of a refresh that is still running.
C36_NeverStuckRefreshing ==
  /\ [](tokenRefreshing => tokenRefreshPromise \in InFlight)
  /\ [][\A p \in PromiseIds :
          SettlesNow(p) =>
            /\ ~tokenRefreshing' /\ tokenRefreshPromise' = 0
            /\ refresh'[p].st = "rejected" =>
                 (tokenInfo' = tokenInfo /\ refresh'[p].val = NullEndpoint)
            /\ ~IsValid(tokenInfo', now') =>
                 /\ ProbeAfter.call[ProbeCaller].st = "cred"
                 /\ ProbeAfter.call[ProbeCaller].leader
                 /\ ProbeAfter.call[ProbeCaller].p \notin Started'
                 /\ ProbeAfter.refresh[ProbeAfter.call[ProbeCaller].p].st
                      = "sign"]_vars

\* a refresh failed, a caller that came afterwards found the cache empty,
\* started a refresh of its own, and that one has installed its credential
C36_Witness ==
  \E p, q \in PromiseIds : \E c \in Callers :
    /\ p < q
    /\ refresh[p].st = "rejected" /\ refresh[q].st = "fulfilled"
    /\ call[c].leader /\ call[c].p = q /\ call[c].seen = 0
    /\ ~call[c].valid
    /\ tokenInfo.token.id = q
    /\ \A r \in PromiseIds \ {p, q} : refresh[r].st = "unused"

\* C37: the credential in the cache is never replaced by the result of a
\* refresh that started before the refresh whose credential it holds
\* (refreshes are numbered in the order they started, and a token carries
\* the number of its refresh).
C37_InstallsMonotone ==
  [][\A p \in PromiseIds :
       (LandsNow(p) /\ tokenInfo.token # NullToken) =>
         tokenInfo.token.id <= p]_vars

\* C38: nothing ever reads the stream here, and the streaming pipeline does
\* not wait for a reader.  While it runs it waits for calls of getAudioChunk
\* that have not settled, or for the buffers of a batch whose calls have all
\* completed, and for nothing else; when it has ended the writer has been
\* closed or aborted.  The step that writes the audio of a batch writes all
\* of it and in the same step issues the next batch or closes the writer,
\* whatever is still unread.
C38_NoBackPressureWait ==
  /\ []((req.stream /\ rpc # "none") =>
          /\ rpc \in {"running", "buffers", "done", "failed"}
          /\ rpc = "running" => ReqUnits \cap Pending # {}
          /\ rpc = "buffers" => Pending = {}
          /\ rpc \in {"done", "failed"} => Terminals # <<>>)
  /\ [][(req.stream /\ rpc = "buffers" /\ rpc' # "buffers") =>
          LET batch == CurrentBatch(World, req)
          IN /\ Len(Writes') = Len(Writes) + Len(batch)
             /\ i' = i + Effective
             /\ IF i' < req.n
                THEN /\ rpc' = "running"
                     /\ \E u \in ReqUnits : u > i' /\ u \in Issued'
                     /\ Terminals' = <<>>
                ELSE rpc' = "done" /\ Terminals' = <<CloseOp>>]_vars

\* the audio of a whole batch lies unread in the stream and the calls of the
\* next batch have been issued
C38_Witness ==
  /\ req.stream /\ rpc = "running"
  /\ Len(Writes) >= 2
  /\ Len(Writes) = i
  /\ \E u \in ReqUnits : u > i /\ call[u].st = "synth"

\* a request was accepted whose text gave no unit
NoUnits == chunker.st = "returned" /\ chunker.out = <<>> /\ rpc # "none"

\* C39: a request whose unit list is empty has ended well at once: none of
\* its units ever called getEndpoint or the synthesis backend, it is
\* attached to no refresh, a buffered request has the audio response with an
\* empty payload, a streamed one the stream response with the writer closed
\* and nothing written, and there is no error.
C39_EmptyUnitList ==
  NoUnits =>
    /\ req.n = 0
    /\ rpc = "done"
    /\ \A u \in Units : call[u] = IdleCall /\ synthCalls[u] = 0
    /\ \A p \in Started : \E d \in Directs : call[d].p = p
    /\ firstFail = NoError
    /\ response.err = NoError /\ response.payload = <<>>
    /\ allAudioBlobs = <<>>
    /\ IF req.stream
       THEN response.kind = "stream" /\ writer = <<CloseOp>>
       ELSE response.kind = "audio" /\ writer = <<>>

\* an input of whitespace only was accepted for streaming and cleaned to
\* nothing: the stream was closed empty, while the refresh another caller had
\* started is still the only one
C39_Witness ==
  /\ NoUnits /\ req.stream
  /\ chunker.text = <<>>
  /\ writer = <<CloseOp>>
  /\ response.kind = "stream"
  /\ Cardinality(Started) = 1 /\ InFlight = Started

\* the key of the request at the check is the configured one, or none is
\* configured
KeyMatches ==
  gate.apiKey = <<>> \/ providedKey(gate.request) = gate.apiKey

\* the rejections of parseRequestParams and processRequestParams
ParseErrors == {JsonError, InputError, VoiceError}

\* a step that parses nothing, refreshes nothing and synthesizes nothing
NothingAsked ==
  UNCHANGED <<tokenInfo, tokenRefreshing, tokenRefreshPromise, refresh,
              backendCalls, call, synthCalls, req, chunker>>

\* no request was parsed, no credential asked for, no unit synthesized
Untouched ==
  /\ chunker = NoChunker
  /\ req = NoRequest
  /\ response.err \notin ParseErrors
  /\ tokenInfo = EmptyTokenInfo
  /\ tokenRefreshPromise = 0
  /\ \A p \in PromiseIds : refresh[p] = UnusedRefresh /\ backendCalls[p] = 0
  /\ \A u \in Units : synthCalls[u] = 0

\* the check has answered the request that had arrived
Answered == gate.st = "arrived" /\ gate'.st # "arrived"

\* C40 as stated: with an API key configured a request reaches parsing,
\* credential refresh or synthesis only if the key it provides (the Bearer
\* token of the Authorization header, else the key or api_key URL parameter)
\* equals the configured key; any other request gets the 401 error and causes
\* no backend call; with no API key configured no request is turned away.
C40_KeyGate ==
  /\ [](~Untouched => gate.st = "admitted")
  /\ [][Answered =>
          /\ (~NothingAsked \/ response'.err \in ParseErrors) => KeyMatches
          /\ ~KeyMatches =>
                /\ response' = [kind |-> "error", payload |-> <<>>,
                                err |-> KeyError]
                /\ NothingAsked
          /\ gate.apiKey = <<>> => response'.err # KeyError]_vars

\* C40 amended: as C40, but an OPTIONS request is answered with the 204 of
\* the CORS preflight before the key is looked at, whatever key it carries;
\* it gets no 401 and, like a request that is turned away, parses nothing,
\* refreshes nothing and synthesizes nothing.
C40_KeyGateAfterPreflight ==
  /\ [](~Untouched => gate.st = "admitted")
  /\ [][Answered =>
          /\ (~NothingAsked \/ response'.err \in ParseErrors) => KeyMatches
          /\ (~KeyMatches /\ gate.request.method # "OPTIONS") =>
                /\ response' = [kind |-> "error", payload |-> <<>>,
                                err |-> KeyError]
                /\ NothingAsked
          /\ gate.request.method = "OPTIONS" =>
                /\ response' = PreflightResponse
                /\ NothingAsked
          /\ gate.apiKey = <<>> => response'.err # KeyError]_vars

\* a request whose Bearer token is a wrong key was turned away with the 401
\* although its key parameter holds the configured key
C40_Witness ==
  /\ gate.st = "unauthorized"
  /\ gate.apiKey = <<"k", "1">>
  /\ gate.request.authorization = BearerPrefix \o <<"k", "2">>
  /\ gate.request.key = <<"k", "1">>
  /\ response.err = KeyError
  /\ rpc = "failed"
  /\ Untouched
====
